---- MODULE Spec2Model ----
(***************************************************************************)
(* Flag-file orchestration of the Cornerstone Archive: the console (flag   *)
(* producer and result consumer), the watcher (lock, event loop, claim,    *)
(* execute, publish) and the supervisor (one-shot pass over control        *)
(* flags), communicating through Worker_Inbox, processing/ and             *)
(* Worker_Outbox on the shared filesystem and through jobs_t/audit_log_t.  *)
(***************************************************************************)
EXTENDS Integers, Sequences, FiniteSets, TLC

(***************************************************************************)
(* Bounds of the model.                                                    *)
(***************************************************************************)
NumProcs == 2        \* watcher processes
MaxTasks == 2        \* task ids that are ever allocated
MaxSignals == 2      \* TERM/INT signals delivered in one behaviour
MaxRedeliver == 1    \* times a flag file name re-enters the inbox
MaxPasses == 2       \* supervisor passes in one behaviour
MaxCalls == 2        \* processPendingResults calls in one behaviour
MaxTime == 10        \* seconds of wall time that are followed
MaxDuration == 3     \* longest time the tasks of one scan take, in seconds
MaxRetries == 3      \* largest max_retries a Database is built with
MaxWrites == 2       \* write_flag_atomically calls of one flag path
PayloadChunks == 2   \* write() calls that make up one JSON payload

Procs == 1..NumProcs
TaskIds == 1..MaxTasks
NoProc == 0

(***************************************************************************)
(* Handler registries.                                                     *)
(***************************************************************************)
SUPERVISOR_HANDLERS ==
    {"pause_watcher", "resume_watcher", "restart_watcher", "update_code",
     "update_code_deps", "rollback_code", "diagnostics", "verify_db"}

JOB_HANDLERS == {"acquire_source"}

\* get_handler: the watcher's registry; None (FALSE here) when unknown
get_handler(handler_name) == handler_name = "acquire_source"

(***************************************************************************)
(* Flag file names.  A name is kept as its parts; the task id n stands for *)
(* the string {kind}_{YYYYMMDD}_{HHMMSS}_{rand4}, ordered by n.            *)
(*   plain : {task_id}.flag                                                *)
(*   job   : job_{handler}_{task_id}.flag                                  *)
(*   sup   : supervisor_{handler}_{worker_id}_{task_id}.flag               *)
(***************************************************************************)
PlainName(t) == [kind |-> "plain", h |-> "", t |-> t]
JobName(h, t) == [kind |-> "job", h |-> h, t |-> t]
SupName(h, t) == [kind |-> "sup", h |-> h, t |-> t]

\* position of the name's fixed prefix in string order:
\* "job_2..." < "job_a..." < "supervisor_..."
KindRank(k) == CASE k = "plain" -> 1 [] k = "job" -> 2 [] OTHER -> 3

\* alphabetical position of a handler name
HandlerRank(h) ==
    CASE h = "" -> 0
      [] h = "acquire_source" -> 1
      [] h = "diagnostics" -> 2
      [] h = "pause_watcher" -> 3
      [] h = "restart_watcher" -> 4
      [] h = "resume_watcher" -> 5
      [] h = "rollback_code" -> 6
      [] h = "update_code" -> 7
      [] h = "update_code_deps" -> 8
      [] h = "verify_db" -> 9
      [] OTHER -> 10

\* string order of two file names
NameLess(a, b) ==
    \/ KindRank(a.kind) < KindRank(b.kind)
    \/ /\ a.kind = b.kind
       /\ \/ HandlerRank(a.h) < HandlerRank(b.h)
          \/ a.h = b.h /\ a.t < b.t

\* the files in descending file name
RECURSIVE SortedByName_Descending(_)
SortedByName_Descending(S) ==
    IF S = {} THEN <<>>
    ELSE LET m == CHOOSE x \in S : \A y \in S \ {x} : NameLess(y.name, x.name)
         IN <<m>> \o SortedByName_Descending(S \ {m})

\* sorted(files): ascending file name
RECURSIVE SortedByName(_)
SortedByName(S) ==
    IF S = {} THEN <<>>
    ELSE LET m == CHOOSE x \in S : \A y \in S \ {x} : NameLess(x.name, y.name)
         IN <<m>> \o SortedByName(S \ {m})

VARIABLES
    inbox,        \* 05_LOGS/Worker_Inbox: set of flag files [name, task_id, handler, label]
    processing,   \* 05_LOGS/processing: task id -> process whose rename put {task_id}.flag there (NoProc: no file)
    outbox,       \* 05_LOGS/Worker_Outbox: set of result files
    lockDir,      \* worker id -> locks/watcher_{worker_id}.lock exists
    ownerFile,    \* worker id -> process that wrote owner.json (NoProc: no file)
    worker,       \* process -> its --worker-id
    pc,           \* process -> position in main()/run()
    running,      \* process -> Watcher.running
    lock_dir,     \* process -> Watcher.lock_dir is set
    tasks,        \* process -> tasks of the current scan not yet handled
    success,      \* process -> outcome of the task in hand
    exitCode,     \* process -> return value of main() (-1: none yet)
    frames,       \* process -> stack of active handle_shutdown calls
    nextId,       \* next task id generate_task_id hands out
    jobs,         \* jobs_t: sequence of rows, job_id = index
    audit,        \* audit_log_t: sequence of entries
    sigCount,     \* signals delivered so far
    redelivered,  \* flag names that re-entered the inbox so far
    held,         \* process -> it created the lock directory and has not removed it
    writes,       \* task id -> sequence of [by, kind] result files written for it
    wins,         \* task id -> processes whose claim_task returned True
    lost,         \* task id -> processes whose claim_task returned False
    raised,       \* task id -> processes whose claim_task raised TaskClaimError
    runs,         \* task id -> processes that executed its handler
    seen,         \* process -> task ids of job_*.flag files read by the scan in progress
    missed,       \* process -> job flags of a completed scan left without a result
    sigInTask,    \* process -> task id in hand when a signal arrived (0: none)
    owns,         \* process -> its claim_task of the task in hand returned True
    relBefore,    \* process -> it released the lock before publishing sigInTask
    passes,       \* supervisor passes run so far (the clock of result file names)
    actions_taken,\* actions list returned by the last check_control_flags
    executed,     \* flag files of the last pass in the order their handlers ran
    listing,      \* order in which the last pass's directory listing gave the files
    calls,        \* process_pending_results calls so far
    dirFiles,     \* a directory at file level: set of [path, ver, len]
    wpc,          \* position of the file write in progress
    wver,         \* file writes started so far
    wres,         \* how the last file write ended
    rnames,       \* paths a reader has listed and not yet read
    observed,     \* contents [ver, len, during] the reader has read
    bad,          \* inbox files that hold no task object: set of [name, shape]
    skipped,      \* process -> listed task flags its aborted scan left unclaimed
    returned,     \* task id -> what its handler did ("none": not executed)
    pauseFlag,    \* 00_STATE/supervisor_pause_{worker_id}.flag exists
    launch,       \* process -> how it was launched: "file" (spec_watcher.py) or "module" (-m)
    autoRestart,  \* the auto-restart step of the last supervisor pass
    startedPaused,\* process -> the pause flag has existed ever since it was started
    lastCreate,   \* the last create_*_flag call: was its input invalid, what it returned, did it change anything
    clock,        \* wall time in seconds
    hbpc,         \* position of the timed event loop: "init", "loop", "done"
    last_scan_time,      \* Watcher.run: last_scan_time
    last_heartbeat_time, \* Watcher.run: last_heartbeat_time
    heartbeat,    \* "utc" of watcher_heartbeat_{worker_id}.json (-1: no file)
    hbGap,        \* largest distance between two consecutive heartbeat timestamps
    lastCall,     \* the last direct call of a supervisor handler: what it did and returned
    health,       \* the last check_watcher_health: the heartbeat it read and its status dict
    dryRuns,      \* process -> number of times it ran main() with --dry-run
    lastPass,     \* the last Supervisor.run_once: its heartbeat row and file, error and exit code
    dbOp,         \* the last Database operation: its attempts, waits and outcome
    passList,     \* overlapping supervisor pass -> the tasks it has parsed and not yet executed
    handled,      \* control flag name -> number of handler executions by overlapping passes
    probe         \* the last process probe or stop of a supervisor: its worker id, what it matched

fsVars == <<inbox, processing, outbox, lockDir, ownerFile>>
procVars == <<worker, pc, running, lock_dir, tasks, success, exitCode, frames>>
dbVars == <<nextId, jobs, audit>>
ghostVars == <<sigCount, redelivered, held, writes, wins, lost, raised, runs,
               seen, missed, sigInTask, owns, relBefore>>
supVars == <<passes, actions_taken, executed, listing, calls>>
atomVars == <<dirFiles, wpc, wver, wres, rnames, observed>>
badVars == <<bad, skipped>>
ctlVars == <<pauseFlag, launch, autoRestart>>
hbVars == <<clock, hbpc, last_scan_time, last_heartbeat_time, heartbeat, hbGap>>
finalVars == <<lastPass, dbOp, passList, handled, probe>>
lateVars == <<hbVars, lastCall, health, dryRuns, finalVars>>
extVars == <<atomVars, badVars, returned, ctlVars, startedPaused, lastCreate,
            lateVars>>
restVars == <<fsVars, procVars, dbVars, ghostVars, supVars, badVars, returned,
              ctlVars, startedPaused, lastCreate, lateVars>>
vars == <<fsVars, procVars, dbVars, ghostVars, supVars, extVars>>

WorkerIds == Procs

Alive(p) == pc[p] \notin {"idle", "exited"}

(***************************************************************************)
(* Console: flag producer.                                                 *)
(***************************************************************************)
\* a validation that accepts the handlers of either flag type
validate_handler_EitherType(handler, flag_type) ==
    /\ handler # ""
    /\ handler \in SUPERVISOR_HANDLERS \cup JOB_HANDLERS

\* validate_handler(handler, flag_type)
validate_handler(handler, flag_type) ==
    /\ handler # ""
    /\ \/ flag_type = "supervisor_control" /\ handler \in SUPERVISOR_HANDLERS
       \/ flag_type = "job" /\ handler \in JOB_HANDLERS

\* the handler registry of a flag type (SUPERVISOR_HANDLERS, JOB_HANDLERS)
Registry(flag_type) ==
    IF flag_type = "supervisor_control" THEN SUPERVISOR_HANDLERS
    ELSE JOB_HANDLERS

\* a create_*_flag call on record: invalid (the label is invalid, the
\* worker id or params are empty, or the handler is not in the registry of
\* the flag type), the "success" of the returned dict, and whether the
\* call left jobs_t, audit_log_t or the flag directory changed
CreateCall(flag_type, bad_arg, handler, ok, J, A, dir) ==
    [invalid |-> bad_arg \/ handler \notin Registry(flag_type),
     success |-> ok,
     changed |-> <<J, A, dir>> # <<jobs, audit, inbox>>]

\* FlagManager._insert_job_record: one new row, state queued, last_error
\* NULL ("" here)
InsertJobRecord(job_type, target_ref, task_id) ==
    Append(jobs, [task_id |-> task_id, job_type |-> job_type,
                  target_ref |-> target_ref, state |-> "queued",
                  last_error |-> "", hist |-> <<"queued">>])

\* one audit_log_t row
AuditRow(actor, action, target_type, target_id) ==
    [actor |-> actor, action |-> action, target_type |-> target_type,
     target_id |-> target_id]

\* write_flag_atomically: os.replace puts the file under its name,
\* replacing a file of the same name
WriteFlag(dir, file) == {f \in dir : f.name # file.name} \cup {file}

\* FlagManager.create_job_flag(handler, params, label)
create_job_flag(handler, label_valid, has_params) ==
    /\ nextId <= MaxTasks
    /\ IF label_valid /\ validate_handler(handler, "job") /\ has_params
       THEN /\ jobs' = InsertJobRecord(handler, "params", nextId)
            /\ audit' = Append(audit, AuditRow("console", "CREATE_FLAG",
                                               "job_task", Len(jobs) + 1))
            /\ inbox' = WriteFlag(inbox, [name |-> JobName(handler, nextId),
                                          task_id |-> nextId,
                                          handler |-> handler])
            /\ nextId' = nextId + 1
       ELSE UNCHANGED <<jobs, audit, inbox, nextId>>
    /\ lastCreate' = CreateCall("job", ~label_valid \/ ~has_params, handler,
                                /\ label_valid
                                /\ validate_handler(handler, "job")
                                /\ has_params,
                                jobs', audit', inbox')
    /\ UNCHANGED <<processing, outbox, lockDir, ownerFile, procVars, ghostVars,
                   supVars>>
    /\ UNCHANGED <<atomVars, badVars, returned, ctlVars, startedPaused,
                   lateVars>>

\* a producer that names the flag {task_id}.flag (generate_ia_tasks)
write_task_flag(handler) ==
    /\ nextId <= MaxTasks
    /\ inbox' = WriteFlag(inbox, [name |-> PlainName(nextId),
                                  task_id |-> nextId, handler |-> handler])
    /\ nextId' = nextId + 1
    /\ UNCHANGED <<processing, outbox, lockDir, ownerFile, procVars, jobs,
                   audit, ghostVars, supVars>>
    /\ UNCHANGED extVars

\* a *.flag file that holds no task object is put into the inbox
write_bad_flag(shape) ==
    /\ nextId <= MaxTasks
    /\ inbox' = WriteFlag(inbox, [name |-> PlainName(nextId),
                                  task_id |-> nextId, handler |-> ""])
    /\ bad' = bad \cup {[name |-> PlainName(nextId), shape |-> shape]}
    /\ nextId' = nextId + 1
    /\ UNCHANGED <<processing, outbox, lockDir, ownerFile, procVars, jobs,
                   audit, ghostVars, supVars, atomVars, skipped, returned,
                   ctlVars, startedPaused, lastCreate,
                   lateVars>>

\* the same {task_id}.flag file name enters the inbox a second time
\* (a producer reusing a task id while the first flag is in processing/)
redeliver_task_flag(t, handler) ==
    /\ t < nextId
    /\ redelivered < MaxRedeliver
    /\ wins[t] # {}
    /\ \A f \in inbox : f.name # PlainName(t)
    /\ inbox' = WriteFlag(inbox, [name |-> PlainName(t), task_id |-> t,
                                  handler |-> handler])
    /\ redelivered' = redelivered + 1
    /\ UNCHANGED <<processing, outbox, lockDir, ownerFile, procVars, dbVars, supVars,
                   sigCount, held, writes, wins, lost, raised, runs, seen,
                   missed, sigInTask, owns, relBefore>>
    /\ UNCHANGED extVars

(***************************************************************************)
(* Watcher: lock, event loop, claim, execute, publish.                     *)
(***************************************************************************)
InMain(p) == Alive(p) /\ frames[p] = <<>>

\* task in hand of process p
Cur(p) == Head(tasks[p])

\* main(): a watcher process is started by hand, as
\* "python scripts/watcher/spec_watcher.py ..."; Watcher.__init__
start_watcher_process(p) ==
    /\ pc[p] \in {"idle", "exited"}
    /\ pc' = [pc EXCEPT ![p] = "acquire"]
    /\ running' = [running EXCEPT ![p] = TRUE]
    /\ lock_dir' = [lock_dir EXCEPT ![p] = FALSE]
    /\ tasks' = [tasks EXCEPT ![p] = <<>>]
    /\ exitCode' = [exitCode EXCEPT ![p] = -1]
    /\ frames' = [frames EXCEPT ![p] = <<>>]
    /\ sigInTask' = [sigInTask EXCEPT ![p] = 0]
    /\ relBefore' = [relBefore EXCEPT ![p] = FALSE]
    /\ owns' = [owns EXCEPT ![p] = FALSE]
    /\ launch' = [launch EXCEPT ![p] = "file"]
    /\ startedPaused' = [startedPaused EXCEPT ![p] = pauseFlag]
    /\ UNCHANGED <<fsVars, worker, success, dbVars, supVars, sigCount, redelivered,
                   held, writes, wins, lost, raised, runs, seen, missed>>
    /\ UNCHANGED <<atomVars, badVars, returned, pauseFlag, autoRestart,
                   lastCreate, lateVars>>

\* Watcher.acquire_lock: lock_dir.mkdir(); on FileExistsError return None
\* and main() returns 1
acquire_lock(p) ==
    /\ InMain(p) /\ pc[p] = "acquire"
    /\ IF lockDir[worker[p]]
       THEN /\ pc' = [pc EXCEPT ![p] = "exited"]
            /\ exitCode' = [exitCode EXCEPT ![p] = 1]
            /\ UNCHANGED <<lockDir, held>>
       ELSE /\ lockDir' = [lockDir EXCEPT ![worker[p]] = TRUE]
            /\ held' = [held EXCEPT ![p] = TRUE]
            /\ pc' = [pc EXCEPT ![p] = "write_owner"]
            /\ UNCHANGED exitCode
    /\ UNCHANGED <<inbox, processing, outbox, ownerFile, worker, running,
                   lock_dir, tasks, success, frames, dbVars, supVars, sigCount,
                   redelivered, writes, wins, lost, raised, runs, seen,
                   missed, sigInTask, owns, relBefore>>
    /\ UNCHANGED extVars

\* Watcher.write_lock_owner, then self.lock_dir = lock_dir; a write into a
\* directory that is gone raises and main() returns 1
write_lock_owner(p) ==
    /\ InMain(p) /\ pc[p] = "write_owner"
    /\ IF lockDir[worker[p]]
       THEN /\ ownerFile' = [ownerFile EXCEPT ![worker[p]] = p]
            /\ lock_dir' = [lock_dir EXCEPT ![p] = TRUE]
            /\ pc' = [pc EXCEPT ![p] = "loop"]
            /\ UNCHANGED <<exitCode, held>>
       ELSE /\ pc' = [pc EXCEPT ![p] = "exited"]
            /\ exitCode' = [exitCode EXCEPT ![p] = 1]
            /\ held' = [held EXCEPT ![p] = FALSE]
            /\ UNCHANGED <<ownerFile, lock_dir>>
    /\ UNCHANGED <<inbox, processing, outbox, lockDir, worker, running,
                   tasks, success, frames, dbVars, supVars, sigCount, redelivered,
                   writes, wins, lost, raised, runs, seen, missed,
                   sigInTask, owns, relBefore>>
    /\ UNCHANGED extVars

\* what json.load gives for a flag file: "malformed" (JSONDecodeError),
\* "non_object" (a list, string or number) or "object"
Shape(f) ==
    IF \E b \in bad : b.name = f.name
    THEN (CHOOSE b \in bad : b.name = f.name).shape
    ELSE "object"

\* Watcher.scan_pending_tasks: the parsed *.flag files in sorted name
\* order; a file json.load rejects is logged and left out
scan_pending_tasks ==
    SelectSeq(SortedByName(inbox), LAMBDA f : Shape(f) # "malformed")

\* job_*.flag files among the tasks of a scan
JobFlagsOf(ts) ==
    {ts[i].task_id : i \in {j \in 1..Len(ts) : ts[j].name.kind = "job"}}

HasResult(t) == \E r \in outbox : r.task_id = t /\ r.kind \in {"result", "error"}

\* Watcher.run: one turn of "while self.running": leave the loop, or
\* (scan gate open) scan the inbox
run_tick(p) ==
    /\ InMain(p) /\ pc[p] = "loop"
    /\ IF running[p]
       THEN /\ tasks' = [tasks EXCEPT ![p] = scan_pending_tasks]
            /\ seen' = [seen EXCEPT ![p] = JobFlagsOf(scan_pending_tasks)]
            /\ missed' = [missed EXCEPT ![p] = {}]
            /\ pc' = [pc EXCEPT ![p] = "for"]
       ELSE /\ pc' = [pc EXCEPT ![p] = "rel1"]
            /\ UNCHANGED <<tasks, seen, missed>>
    /\ UNCHANGED <<fsVars, worker, running, lock_dir, success, exitCode,
                   frames, dbVars, supVars, sigCount, redelivered, held, writes, wins,
                   lost, raised, runs, sigInTask, owns, relBefore>>
    /\ UNCHANGED extVars

\* task flags of ts that are in the inbox under the name claim_task uses
Claimable(ts) ==
    {ts[i].task_id : i \in {j \in 1..Len(ts) :
        /\ ts[j].name.kind = "plain" /\ Shape(ts[j]) = "object"
        /\ ts[j] \in inbox}}

\* a for loop that goes on to the next task whatever self.running says
ScanInterrupted_Never(p) == FALSE

\* Watcher.run, inside "for task in tasks": "if not self.running: break"
ScanInterrupted(p) == ~running[p]

\* Watcher.run: "for task in tasks: if not self.running: break"; a parsed
\* value that is no dict makes process_task raise at task.get, before its
\* try block: run's "except Exception" ends the scan
for_task(p) ==
    /\ InMain(p) /\ pc[p] = "for"
    /\ IF tasks[p] = <<>>
       THEN /\ pc' = [pc EXCEPT ![p] = "loop"]
            /\ missed' = [missed EXCEPT ![p] = {t \in seen[p] : ~HasResult(t)}]
            /\ UNCHANGED <<tasks, skipped>>
       ELSE IF ScanInterrupted(p)
       THEN /\ pc' = [pc EXCEPT ![p] = "loop"]
            /\ tasks' = [tasks EXCEPT ![p] = <<>>]
            /\ UNCHANGED <<missed, skipped>>
       ELSE IF Shape(Cur(p)) = "non_object"
       THEN /\ pc' = [pc EXCEPT ![p] = "loop"]
            /\ tasks' = [tasks EXCEPT ![p] = <<>>]
            /\ skipped' = [skipped EXCEPT ![p] = @ \cup Claimable(Tail(tasks[p]))]
            /\ UNCHANGED missed
       ELSE /\ pc' = [pc EXCEPT ![p] = "claim"]
            /\ UNCHANGED <<tasks, missed, skipped>>
    /\ UNCHANGED <<fsVars, worker, running, lock_dir, success, exitCode,
                   frames, dbVars, supVars, sigCount, redelivered, held, writes, wins,
                   lost, raised, runs, seen, sigInTask, owns, relBefore>>
    /\ UNCHANGED <<atomVars, bad, returned, ctlVars, startedPaused,
                   lastCreate, lateVars>>

Platforms == {"posix", "windows"}

\* a rename whose FileNotFoundError is taken for success: the claim of a
\* flag that is gone from the inbox goes through
RenameOutcome_MissingIsMoved(src_exists, dst_exists, os) ==
    IF ~dst_exists THEN "moved"
    ELSE IF os = "posix" THEN "replaced"
    ELSE "exists_error"

\* Path.rename(target): FileNotFoundError without a source; with an existing
\* target it replaces it silently on POSIX and raises FileExistsError on
\* Windows
RenameOutcome(src_exists, dst_exists, os) ==
    IF ~src_exists THEN "not_found"
    ELSE IF ~dst_exists THEN "moved"
    ELSE IF os = "posix" THEN "replaced"
    ELSE "exists_error"

\* end of process_task for the task in hand: back to the for loop
NextTask(p) ==
    /\ tasks' = [tasks EXCEPT ![p] = Tail(tasks[p])]
    /\ owns' = [owns EXCEPT ![p] = FALSE]
    /\ pc' = [pc EXCEPT ![p] = "for"]

\* Watcher.claim_task, called by process_task: rename
\* Worker_Inbox/{task_id}.flag to processing/{task_id}.flag
claim_task(p, os) ==
    /\ InMain(p) /\ pc[p] = "claim"
    /\ LET t == Cur(p).task_id
           src == {f \in inbox : f.name = PlainName(t)}
           res == RenameOutcome(src # {}, processing[t] # NoProc, os)
       IN CASE res = "not_found" ->
                 \* return False: "Already claimed by another worker"
                 /\ lost' = [lost EXCEPT ![t] = @ \cup {p}]
                 /\ NextTask(p)
                 /\ UNCHANGED <<inbox, processing, wins, raised, success>>
            [] res \in {"moved", "replaced"} ->
                 /\ inbox' = inbox \ src
                 /\ processing' = [processing EXCEPT ![t] = p]
                 /\ wins' = [wins EXCEPT ![t] = @ \cup {p}]
                 /\ owns' = [owns EXCEPT ![p] = TRUE]
                 /\ pc' = [pc EXCEPT ![p] = "exec"]
                 /\ UNCHANGED <<lost, raised, success, tasks>>
            [] OTHER ->
                 \* TaskClaimError, caught by "except Exception" of
                 \* process_task: record_result(task, error, success=False)
                 /\ raised' = [raised EXCEPT ![t] = @ \cup {p}]
                 /\ success' = [success EXCEPT ![p] = FALSE]
                 /\ pc' = [pc EXCEPT ![p] = "rec_unlink"]
                 /\ UNCHANGED <<inbox, processing, wins, lost, tasks, owns>>
    /\ UNCHANGED <<outbox, lockDir, ownerFile, worker, running, lock_dir,
                   exitCode, frames, dbVars, supVars, sigCount, redelivered, held,
                   writes, runs, seen, missed, sigInTask, relBefore>>
    /\ UNCHANGED extVars

\* what a registered handler does: returns a success result ("ok"),
\* returns a result that reports failure ("fail"), or raises ("raise")
HandlerOutcomes == {"ok", "fail", "raise"}

\* Watcher.execute_handler, called by process_task: no handler name or no
\* registered handler raises; a handler that raises is re-raised as
\* TaskExecutionError; whatever a handler returns is handed to
\* record_result(task, result, success=True)
execute_handler(p, out) ==
    /\ InMain(p) /\ pc[p] = "exec"
    /\ runs' = [runs EXCEPT ![Cur(p).task_id] = @ \cup {p}]
    /\ LET known == Cur(p).handler # "" /\ get_handler(Cur(p).handler)
       IN /\ success' = [success EXCEPT ![p] = known /\ out # "raise"]
          /\ returned' = [returned EXCEPT ![Cur(p).task_id] =
                             IF known THEN out ELSE "missing"]
    /\ pc' = [pc EXCEPT ![p] = "rec_unlink"]
    /\ UNCHANGED <<fsVars, worker, running, lock_dir, tasks, exitCode,
                   frames, dbVars, supVars, sigCount, redelivered, held, writes, wins,
                   lost, raised, seen, missed, sigInTask, owns, relBefore>>
    /\ UNCHANGED <<atomVars, badVars, ctlVars, startedPaused, lastCreate,
                   lateVars>>

\* Watcher.record_result, first half: remove processing/{task_id}.flag
record_result_unlink(p) ==
    /\ InMain(p) /\ pc[p] = "rec_unlink"
    /\ processing' = [processing EXCEPT ![Cur(p).task_id] = NoProc]
    /\ pc' = [pc EXCEPT ![p] = "rec_write"]
    /\ UNCHANGED <<inbox, outbox, lockDir, ownerFile, worker, running,
                   lock_dir, tasks, success, exitCode, frames, dbVars, supVars,
                   ghostVars>>
    /\ UNCHANGED extVars

\* name of the result file record_result writes
ResultKind(ok) == IF ok THEN "result" ELSE "error"

\* Watcher.record_result, second half: write {task_id}.result.json or
\* {task_id}.error.json into Worker_Outbox
record_result_write(p) ==
    /\ InMain(p) /\ pc[p] = "rec_write"
    /\ LET t == Cur(p).task_id
           file == [kind |-> ResultKind(success[p]), task_id |-> t,
                    handler |-> "", ts |-> 0, success |-> success[p],
                    error |-> "",
                    result_error |-> IF success[p] THEN "" ELSE "raised"]
       IN /\ outbox' = {r \in outbox : ~(r.kind = file.kind /\ r.task_id = t)}
                         \cup {file}
          /\ writes' = [writes EXCEPT ![t] =
                          Append(@, [by |-> p, kind |-> file.kind])]
    /\ NextTask(p)
    /\ UNCHANGED <<inbox, processing, lockDir, ownerFile, worker, running,
                   lock_dir, success, exitCode, frames, dbVars, supVars, sigCount,
                   redelivered, held, wins, lost, raised, runs, seen, missed,
                   sigInTask, relBefore>>
    /\ UNCHANGED extVars

(***************************************************************************)
(* release_lock runs either in main()'s finally (pc rel1..rel3) or inside  *)
(* handle_shutdown (top of frames); a signal handler runs in the main      *)
(* thread and suspends whatever it interrupted.                            *)
(***************************************************************************)
Stage(p) == IF frames[p] # <<>> THEN frames[p][Len(frames[p])] ELSE pc[p]

\* move the running release_lock call of p to stage s
Advance(p, s) ==
    IF frames[p] # <<>>
    THEN /\ frames' = [frames EXCEPT ![p] = [@ EXCEPT ![Len(@)] = s]]
         /\ UNCHANGED <<pc, exitCode>>
    ELSE /\ pc' = [pc EXCEPT ![p] = s]
         /\ UNCHANGED <<frames, exitCode>>

\* the running release_lock call of p returns: the handler frame ends, or
\* main() returns run()'s exit code 0
Return(p) ==
    IF frames[p] # <<>>
    THEN /\ frames' = [frames EXCEPT ![p] = SubSeq(@, 1, Len(@) - 1)]
         /\ UNCHANGED <<pc, exitCode>>
    ELSE /\ pc' = [pc EXCEPT ![p] = "exited"]
         /\ exitCode' = [exitCode EXCEPT ![p] = 0]
         /\ UNCHANGED frames

\* Watcher.release_lock: "if self.lock_dir is None: return", else unlink
\* owner.json if it exists
release_lock_owner(p) ==
    /\ Alive(p) /\ Stage(p) = "rel1"
    /\ IF lock_dir[p]
       THEN /\ ownerFile' = [ownerFile EXCEPT ![worker[p]] = NoProc]
            /\ Advance(p, "rel2")
       ELSE /\ Return(p)
            /\ UNCHANGED ownerFile
    /\ UNCHANGED <<inbox, processing, outbox, lockDir, worker, running,
                   lock_dir, tasks, success, dbVars, supVars, ghostVars>>
    /\ UNCHANGED extVars

\* p has the task of sigInTask in hand and has not published it
Unpublished(p) ==
    /\ sigInTask[p] # 0
    /\ \A i \in 1..Len(writes[sigInTask[p]]) : writes[sigInTask[p]][i].by # p

\* Watcher.release_lock: self.lock_dir.rmdir(); any exception (lock_dir
\* already None, directory gone) is caught and logged
release_lock_rmdir(p) ==
    /\ Alive(p) /\ Stage(p) = "rel2"
    /\ IF lock_dir[p] /\ lockDir[worker[p]] /\ ownerFile[worker[p]] = NoProc
       THEN /\ lockDir' = [lockDir EXCEPT ![worker[p]] = FALSE]
            /\ relBefore' = [relBefore EXCEPT ![p] = @ \/ Unpublished(p)]
       ELSE UNCHANGED <<lockDir, relBefore>>
    /\ held' = [held EXCEPT ![p] = FALSE]
    /\ Advance(p, "rel3")
    /\ UNCHANGED <<inbox, processing, outbox, ownerFile, worker, running,
                   lock_dir, tasks, success, dbVars, supVars, sigCount, redelivered,
                   writes, wins, lost, raised, runs, seen, missed, sigInTask,
                   owns>>
    /\ UNCHANGED extVars

\* Watcher.release_lock: "finally: self.lock_dir = None"
release_lock_clear(p) ==
    /\ Alive(p) /\ Stage(p) = "rel3"
    /\ lock_dir' = [lock_dir EXCEPT ![p] = FALSE]
    /\ Return(p)
    /\ UNCHANGED <<fsVars, worker, running, tasks, success, dbVars, supVars,
                   ghostVars>>
    /\ UNCHANGED extVars

\* Watcher.handle_shutdown: TERM or INT arrives; running = False, then
\* release_lock() inside the handler
handle_shutdown(p) ==
    /\ Alive(p)
    /\ sigCount < MaxSignals
    /\ sigCount' = sigCount + 1
    /\ running' = [running EXCEPT ![p] = FALSE]
    /\ frames' = [frames EXCEPT ![p] = Append(@, "rel1")]
    /\ sigInTask' = [sigInTask EXCEPT ![p] =
                       IF pc[p] = "exec" /\ @ = 0 THEN Cur(p).task_id ELSE @]
    /\ UNCHANGED <<fsVars, worker, pc, lock_dir, tasks, success, exitCode,
                   dbVars, supVars, redelivered, held, writes, wins, lost, raised,
                   runs, seen, missed, owns, relBefore>>
    /\ UNCHANGED extVars

(***************************************************************************)
(* Watcher.run with wall time: the scan gate and the heartbeat gate.       *)
(***************************************************************************)
\* watcher.scan_interval_seconds and watcher.heartbeat_interval_seconds
\* (30 and 300 by default), scaled down
ScanInterval == 2
HeartbeatInterval == 3

\* Watcher.run before the loop: last_scan_time = last_heartbeat_time = now
\* and the unconditional first heartbeat
run_start ==
    /\ hbpc = "init"
    /\ hbpc' = "loop"
    /\ last_scan_time' = clock
    /\ last_heartbeat_time' = clock
    /\ heartbeat' = clock
    /\ UNCHANGED <<clock, hbGap, lastCall, health, dryRuns, finalVars>>
    /\ UNCHANGED <<fsVars, procVars, dbVars, ghostVars, supVars, atomVars,
                   badVars, returned, ctlVars, startedPaused, lastCreate>>

\* one turn of "while self.running": sleep(1); now = time.time(); if the
\* scan gate is open, scan and process the tasks one after another (they
\* take dur seconds) and set last_scan_time = now; then, if the heartbeat
\* gate is open, write the heartbeat file (its "utc" is the time of the
\* write) and set last_heartbeat_time = now.  stop: running was set to False
loop_turn(dur, stop) ==
    /\ hbpc = "loop"
    /\ clock + 1 + dur <= MaxTime
    /\ IF stop
       THEN /\ dur = 0
            /\ hbpc' = "done"
            /\ clock' = clock + 1
            /\ UNCHANGED <<last_scan_time, last_heartbeat_time, heartbeat,
                           hbGap>>
       ELSE LET now == clock + 1
                scan == (now - last_scan_time) >= ScanInterval
                beat == (now - last_heartbeat_time) >= HeartbeatInterval
                written == now + dur
            IN /\ ~scan => dur = 0
               /\ clock' = written
               /\ last_scan_time' = IF scan THEN now ELSE last_scan_time
               /\ last_heartbeat_time' =
                     IF beat THEN now ELSE last_heartbeat_time
               /\ heartbeat' = IF beat THEN written ELSE heartbeat
               /\ hbGap' = IF beat /\ written - heartbeat > hbGap
                           THEN written - heartbeat ELSE hbGap
               /\ UNCHANGED hbpc
    /\ UNCHANGED <<lastCall, health, dryRuns, finalVars>>
    /\ UNCHANGED <<fsVars, procVars, dbVars, ghostVars, supVars, atomVars,
                   badVars, returned, ctlVars, startedPaused, lastCreate>>

(***************************************************************************)
(* Console: supervisor control flags.                                      *)
(***************************************************************************)
\* FlagManager.create_supervisor_flag(handler, worker_id, params, label)
create_supervisor_flag(handler, has_worker_id, label_valid) ==
    /\ nextId <= MaxTasks
    /\ IF label_valid /\ validate_handler(handler, "supervisor_control")
          /\ has_worker_id
       THEN /\ jobs' = InsertJobRecord("supervisor_control", handler, nextId)
            /\ audit' = Append(audit, AuditRow("console", "CREATE_FLAG",
                                               "supervisor_control",
                                               Len(jobs) + 1))
            /\ inbox' = WriteFlag(inbox, [name |-> SupName(handler, nextId),
                                          task_id |-> nextId,
                                          handler |-> handler])
            /\ nextId' = nextId + 1
       ELSE UNCHANGED <<jobs, audit, inbox, nextId>>
    /\ lastCreate' = CreateCall("supervisor_control",
                                ~label_valid \/ ~has_worker_id, handler,
                                /\ label_valid
                                /\ validate_handler(handler,
                                                    "supervisor_control")
                                /\ has_worker_id,
                                jobs', audit', inbox')
    /\ UNCHANGED <<processing, outbox, lockDir, ownerFile, procVars, ghostVars,
                   supVars>>
    /\ UNCHANGED <<atomVars, badVars, returned, ctlVars, startedPaused,
                   lateVars>>

(***************************************************************************)
(* Supervisor: one pass over the control flags.                            *)
(***************************************************************************)
\* control_flow.HANDLERS
HANDLERS == SUPERVISOR_HANDLERS

\* control_flow.HANDLER_PRIORITY, with the .get(handler, 999) default
HANDLER_PRIORITY(h) ==
    CASE h = "rollback_code" -> 10
      [] h = "update_code_deps" -> 11
      [] h = "update_code" -> 12
      [] h = "pause_watcher" -> 20
      [] h = "resume_watcher" -> 21
      [] h = "restart_watcher" -> 22
      [] h = "diagnostics" -> 30
      [] h = "verify_db" -> 31
      [] OTHER -> 999

\* all orders in which a directory listing can return the files of S
RECURSIVE Listings(_)
Listings(S) ==
    IF S = {} THEN {<<>>}
    ELSE UNION {{<<f>> \o rest : rest \in Listings(S \ {f})} : f \in S}

\* a parse loop without the "handler not in HANDLERS" check
KnownTasks_AnyHandler(files) ==
    SelectSeq(files, LAMBDA f : Shape(f) = "object")

\* the parse loop of check_control_flags: files that parse to an object
\* with a handler of HANDLERS, in listing order
KnownTasks(files) ==
    SelectSeq(files, LAMBDA f : Shape(f) = "object" /\ f.handler \in HANDLERS)

\* insert x into a sequence sorted by priority, after every element of
\* the same priority
RECURSIVE InsertByPriority(_, _)
InsertByPriority(sorted, x) ==
    IF sorted = <<>> THEN <<x>>
    ELSE IF HANDLER_PRIORITY(x.handler) < HANDLER_PRIORITY(Head(sorted).handler)
    THEN <<x>> \o sorted
    ELSE <<Head(sorted)>> \o InsertByPriority(Tail(sorted), x)

\* the parsed tasks left in directory listing order: the sort is missing
SortByPriority_Unsorted(ts) == ts

\* tasks.sort(key=lambda t: t['priority']): a stable sort
RECURSIVE SortByPriority(_)
SortByPriority(ts) ==
    IF ts = <<>> THEN <<>>
    ELSE InsertByPriority(SortByPriority(SubSeq(ts, 1, Len(ts) - 1)),
                          ts[Len(ts)])

Outcomes == {"ok", "fail", "raise"}

\* a result file that reports success whatever the handler did
SupResultFile_AlwaysOk(f, ok, ts) ==
    [kind |-> "sup_result", task_id |-> f.task_id, handler |-> f.handler,
     ts |-> ts, success |-> TRUE, error |-> "", result_error |-> ""]

\* control_flow.write_result_file: supervisor_result_{handler}_{task}_{ts}.json
SupResultFile(f, ok, ts) ==
    [kind |-> "sup_result", task_id |-> f.task_id, handler |-> f.handler,
     ts |-> ts, success |-> ok, error |-> IF ok THEN "" ELSE "failed",
     result_error |-> ""]

\* the entry check_control_flags appends to actions_taken
ActionDesc(f, out) ==
    [handler |-> f.handler,
     tag |-> CASE out = "ok" -> ""
               [] out = "fail" -> "ERROR"
               [] OTHER -> "EXCEPTION"]

\* control_flow.check_control_flags: list *.flag, keep the known handlers,
\* sort by priority, then for each task run the handler (outcome out),
\* write its result file, record the action and unlink the flag (the
\* unlink fails for the files of stuck)
check_control_flags(order, out, stuck) ==
    /\ passes < MaxPasses
    /\ LET todo == SortByPriority(KnownTasks(order))
           ran == {todo[i] : i \in 1..Len(todo)}
       IN /\ passes' = passes + 1
          /\ listing' = order
          /\ executed' = todo
          /\ actions_taken' = [i \in 1..Len(todo) |->
                                 ActionDesc(todo[i], out[todo[i].name])]
          /\ outbox' = outbox \cup
                {SupResultFile(f, out[f.name] = "ok", passes + 1) : f \in ran}
          /\ inbox' = inbox \ {f \in ran : f.name \notin stuck}
    /\ UNCHANGED <<processing, lockDir, ownerFile, procVars, dbVars,
                   ghostVars, calls>>
    /\ UNCHANGED extVars

(***************************************************************************)
(* Supervisor: watcher health, auto-restart, watcher control handlers.     *)
(***************************************************************************)
\* the worker id the supervisor is run for
SupWorker == 1

\* utils.check_watcher_process: some process of this worker id runs
check_watcher_process(P) ==
    \E p \in Procs : P[p] \notin {"idle", "exited"} /\ worker[p] = SupWorker

\* Supervisor.check_watcher_health: status['state']
WatcherState(found, healthy) ==
    IF found /\ healthy THEN "running" ELSE IF found THEN "stale" ELSE "stopped"

\* an auto-restart that looks at the process only
AutoRestartDue_IgnorePause(found, paused) == ~found

\* Supervisor.run_once: "if not health['running']", then
\* "if is_watcher_paused(...)" skips, else start_watcher
AutoRestartDue(found, paused) == ~found /\ ~paused

\* the processes, lock and pause flag as a supervisor pass finds them;
\* born: processes the pass has spawned, full: a spawn found no process left
\* among Procs
ProcState ==
    [pc |-> pc, running |-> running, lock_dir |-> lock_dir, tasks |-> tasks,
     exitCode |-> exitCode, frames |-> frames, sigInTask |-> sigInTask,
     relBefore |-> relBefore, owns |-> owns, launch |-> launch,
     startedPaused |-> startedPaused, lockDir |-> lockDir,
     ownerFile |-> ownerFile, held |-> held, pauseFlag |-> pauseFlag,
     audit |-> audit, born |-> {}, full |-> FALSE]

\* utils.start_watcher: Popen of "python -m scripts.watcher.spec_watcher
\* --worker-id ..."; the new process starts main()
start_watcher(s) ==
    IF \E p \in Procs : s.pc[p] \in {"idle", "exited"} /\ worker[p] = SupWorker
    THEN LET p == CHOOSE q \in Procs :
                     s.pc[q] \in {"idle", "exited"} /\ worker[q] = SupWorker
         IN [s EXCEPT !.pc[p] = "acquire", !.running[p] = TRUE,
                      !.lock_dir[p] = FALSE, !.tasks[p] = <<>>,
                      !.exitCode[p] = -1, !.frames[p] = <<>>,
                      !.sigInTask[p] = 0, !.relBefore[p] = FALSE,
                      !.owns[p] = FALSE, !.launch[p] = "module",
                      !.startedPaused[p] = s.pauseFlag,
                      !.born = @ \cup {p}]
    ELSE [s EXCEPT !.full = TRUE]

StopModes == {"graceful", "killed"}

\* utils.stop_watcher_gracefully: the first process whose command line
\* holds "spec_watcher.py" and the worker id gets TERM; none found is
\* "already not running".  graceful: a watcher waiting in its loop runs
\* handle_shutdown, releases the lock and returns 0 within the budget;
\* killed: the process ends where it stands (force-kill, TerminateProcess)
stop_watcher_gracefully(s, mode) ==
    LET targets == {p \in Procs : /\ s.pc[p] \notin {"idle", "exited"}
                                  /\ worker[p] = SupWorker
                                  /\ s.launch[p] = "file"}
    IN IF targets = {} THEN s
       ELSE LET p == CHOOSE q \in targets : TRUE
            IN IF mode = "graceful" /\ s.pc[p] = "loop" /\ s.frames[p] = <<>>
                  /\ s.lock_dir[p]
               THEN [s EXCEPT !.pc[p] = "exited", !.running[p] = FALSE,
                              !.lock_dir[p] = FALSE, !.exitCode[p] = 0,
                              !.held[p] = FALSE,
                              !.ownerFile[worker[p]] = NoProc,
                              !.lockDir[worker[p]] = FALSE]
               ELSE [s EXCEPT !.pc[p] = "exited"]

\* the audit_log_t row a watcher control handler inserts
SupAudit(s, action) ==
    [s EXCEPT !.audit = Append(@, AuditRow("supervisor", action,
                                           "supervisor_control", SupWorker))]

\* where a watcher control handler ends: "ok", "fail" (it returns failure
\* at its first check or step), "db" (its audit insert raises)
ControlOutcomes == {"ok", "fail", "db"}

\* what the handler's result says
ResultOf(o) == IF o = "ok" THEN "ok" ELSE "fail"

\* handlers.pause_watcher: create_pause_flag, audit row
pause_watcher(s, o) ==
    IF o = "fail" THEN s
    ELSE LET s1 == [s EXCEPT !.pauseFlag = TRUE]
         IN IF o = "db" THEN s1 ELSE SupAudit(s1, "PAUSE_WATCHER")

\* handlers.resume_watcher: delete_pause_flag, start_watcher, audit row
resume_watcher(s, o) ==
    IF o = "fail" THEN s
    ELSE LET s1 == start_watcher(
                      [s EXCEPT !.pauseFlag = FALSE,
                                !.startedPaused = [p \in Procs |-> FALSE]])
         IN IF o = "db" THEN s1 ELSE SupAudit(s1, "RESUME_WATCHER")

\* handlers.restart_watcher: is_watcher_paused, stop_watcher_gracefully,
\* start_watcher, audit row; the pause flag is left as it is
restart_watcher(s, o, mode) ==
    IF o = "fail" THEN s
    ELSE LET s1 == start_watcher(stop_watcher_gracefully(s, mode))
         IN IF o = "db" THEN s1 ELSE SupAudit(s1, "RESTART_WATCHER")

\* result = handler_func(nas, db, worker_id, task) for one control flag
RunHandler(s, f, o, mode) ==
    CASE f.handler = "pause_watcher" -> pause_watcher(s, o)
      [] f.handler = "resume_watcher" -> resume_watcher(s, o)
      [] f.handler = "restart_watcher" -> restart_watcher(s, o, mode)
      [] OTHER -> s

\* the "for task in tasks" loop of check_control_flags
RECURSIVE RunHandlers(_, _, _, _)
RunHandlers(s, todo, out, mode) ==
    IF todo = <<>> THEN s
    ELSE RunHandlers(RunHandler(s, Head(todo), out[Head(todo).name], mode),
                     Tail(todo), out, mode)

NoPass ==
    [ran |-> FALSE, error |-> "", rows |-> 0, files |-> 0, success |-> FALSE,
     summary |-> "", actions |-> <<>>, exit |-> -1]

\* report_supervisor_heartbeat_to_database: status_summary starts with
\* "Supervisor OK" or with "Supervisor ERROR"
StatusSummary(ok) == IF ok THEN "Supervisor OK" ELSE "Supervisor ERROR"

\* a pass that ends with the row upserted and no heartbeat file written
PassEnd_NoFile(error, ok, actions, code) ==
    [ran |-> TRUE, error |-> error, rows |-> 1, files |-> 0, success |-> ok,
     summary |-> StatusSummary(ok), actions |-> actions, exit |-> code]

\* the end of a pass: report_heartbeat_to_database(success, ...) upserts
\* the row, write_heartbeat_file(success, error, actions_taken) writes
\* supervisor_heartbeat_{worker_id}.json, return code.  error: run_once's
\* local variable error
PassEnd(error, ok, actions, code) ==
    [ran |-> TRUE, error |-> error, rows |-> 1, files |-> 1, success |-> ok,
     summary |-> StatusSummary(ok), actions |-> actions, exit |-> code]

\* Supervisor.run_once: check_watcher_health, the auto-restart step
\* (popen: start_watcher's Popen succeeds), then check_control_flags
run_once(order, out, healthy, popen, mode) ==
    /\ passes < MaxPasses
    /\ LET found == check_watcher_process(pc)
           paused == pauseFlag
           due == AutoRestartDue(found, paused)
           s1 == IF due /\ popen THEN start_watcher(ProcState) ELSE ProcState
           todo == SortByPriority(KnownTasks(order))
           ran == {todo[i] : i \in 1..Len(todo)}
           s2 == RunHandlers(s1, todo, out, mode)
       IN /\ ~s2.full
          /\ passes' = passes + 1
          /\ listing' = order
          /\ executed' = todo
          /\ autoRestart' = [found |-> found, paused |-> paused,
                             called |-> due, born |-> s1.born,
                             state |-> WatcherState(found, healthy)]
          /\ actions_taken' =
                (IF due /\ popen
                 THEN <<[handler |-> "auto_restart_watcher", tag |-> ""]>>
                 ELSE <<>>)
                \o [i \in 1..Len(todo) |->
                      ActionDesc(todo[i], ResultOf(out[todo[i].name]))]
          /\ lastPass' =
                PassEnd(IF due /\ ~popen THEN "Failed to auto-restart watcher"
                        ELSE "", TRUE, actions_taken', 0)
          /\ outbox' = outbox \cup
                {SupResultFile(f, out[f.name] = "ok", passes + 1) : f \in ran}
          /\ inbox' = inbox \ ran
          /\ pc' = s2.pc /\ running' = s2.running /\ lock_dir' = s2.lock_dir
          /\ tasks' = s2.tasks /\ exitCode' = s2.exitCode
          /\ frames' = s2.frames /\ sigInTask' = s2.sigInTask
          /\ relBefore' = s2.relBefore /\ owns' = s2.owns
          /\ launch' = s2.launch /\ startedPaused' = s2.startedPaused
          /\ lockDir' = s2.lockDir /\ ownerFile' = s2.ownerFile
          /\ held' = s2.held /\ pauseFlag' = s2.pauseFlag
          /\ audit' = s2.audit
    /\ UNCHANGED <<processing, worker, success, nextId, jobs, calls, sigCount,
                   redelivered, writes, wins, lost, raised, runs, seen,
                   missed, atomVars, badVars, returned, lastCreate,
                   hbVars, lastCall, health, dryRuns, dbOp, passList,
                   handled, probe>>

\* where an exception leaves the try body of run_once: in
\* check_watcher_health, or after the auto-restart step and before the
\* control flags
RaisePoints == {"health", "flags"}

\* Supervisor.run_once when an exception escapes its try body at where:
\* "except (ConfigError, NasError, DatabaseError)" (known) or "except
\* Exception"; both report the heartbeat with success=False and return 1
run_once_raises(where, known, popen) ==
    /\ passes < MaxPasses
    /\ LET found == check_watcher_process(pc)
           paused == pauseFlag
           due == where = "flags" /\ AutoRestartDue(found, paused)
           s1 == IF due /\ popen THEN start_watcher(ProcState) ELSE ProcState
       IN /\ ~s1.full
          /\ passes' = passes + 1
          /\ listing' = <<>>
          /\ executed' = <<>>
          /\ autoRestart' = [found |-> found, paused |-> paused,
                             called |-> due, born |-> s1.born,
                             state |-> WatcherState(found, FALSE)]
          /\ actions_taken' =
                IF due /\ popen
                THEN <<[handler |-> "auto_restart_watcher", tag |-> ""]>>
                ELSE <<>>
          /\ lastPass' = PassEnd(IF known THEN "fatal" ELSE "unexpected",
                                 FALSE, actions_taken', 1)
          /\ pc' = s1.pc /\ running' = s1.running /\ lock_dir' = s1.lock_dir
          /\ tasks' = s1.tasks /\ exitCode' = s1.exitCode
          /\ frames' = s1.frames /\ sigInTask' = s1.sigInTask
          /\ relBefore' = s1.relBefore /\ owns' = s1.owns
          /\ launch' = s1.launch /\ startedPaused' = s1.startedPaused
    /\ UNCHANGED <<fsVars, held, pauseFlag, audit, worker, success, nextId,
                   jobs, calls, sigCount, redelivered, writes, wins, lost,
                   raised, runs, seen, missed, atomVars, badVars, returned,
                   lastCreate, hbVars, lastCall, health, dryRuns, dbOp,
                   passList, handled, probe>>

(***************************************************************************)
(* Watcher: main() with --dry-run.                                         *)
(***************************************************************************)
\* main with parsed.dry_run: the Watcher is built, scan_pending_tasks
\* runs once, every task is logged with task.get('task_id') and
\* task.get('handler'), db.close(), return 0.  A parsed flag that is no
\* dict makes task.get raise AttributeError: main's "except Exception"
\* returns 1
dry_run(p) ==
    /\ pc[p] \in {"idle", "exited"}
    /\ dryRuns[p] < MaxCalls
    /\ dryRuns' = [dryRuns EXCEPT ![p] = @ + 1]
    /\ pc' = [pc EXCEPT ![p] = "exited"]
    /\ LET ts == scan_pending_tasks
       IN exitCode' = [exitCode EXCEPT ![p] =
             IF \E i \in 1..Len(ts) : Shape(ts[i]) = "non_object"
             THEN 1 ELSE 0]
    /\ UNCHANGED <<fsVars, worker, running, lock_dir, tasks, success, frames,
                   dbVars, ghostVars, supVars, atomVars, badVars, returned,
                   ctlVars, startedPaused, lastCreate, hbVars, lastCall,
                   health, finalVars>>

(***************************************************************************)
(* Supervisor: the heartbeat file and the health classification.           *)
(***************************************************************************)
\* is_watcher_healthy: "age > 300", in seconds
MaxAge == 300

\* a value of the fields "timestamp" and "utc": absent or empty ("none"), a
\* string fromisoformat rejects ("bad"), or a time that lies age seconds
\* before the check (negative: in the future)
Stamps ==
    {[kind |-> "none", age |-> 0], [kind |-> "bad", age |-> 0]}
    \cup {[kind |-> "time", age |-> a] :
             a \in {-1, 0, MaxAge - 1, MaxAge, MaxAge + 1}}

\* watcher_heartbeat_{worker_id}.json as read_watcher_heartbeat finds it:
\* no file, a file json.load rejects, or a JSON object
HeartbeatFiles ==
    [file : {"missing", "invalid"}, status : {""},
     timestamp : {[kind |-> "none", age |-> 0]},
     utc : {[kind |-> "none", age |-> 0]}]
    \cup [file : {"object"}, status : {"running", "stopped", ""},
          timestamp : Stamps, utc : Stamps]

NoAge == -1

\* utils.get_heartbeat_age_seconds: max(0, age), None (NoAge) when the
\* string does not parse
get_heartbeat_age_seconds(stamp) ==
    IF stamp.kind # "time" THEN NoAge
    ELSE IF stamp.age < 0 THEN 0 ELSE stamp.age

\* heartbeat.get('timestamp') or heartbeat.get('utc')
TimestampStr(hb) ==
    IF hb.timestamp.kind # "none" THEN hb.timestamp ELSE hb.utc

\* a health check that takes an age of exactly MaxAge for too old
is_watcher_healthy_Below(hb) ==
    /\ hb.file = "object"
    /\ hb.status = "running"
    /\ TimestampStr(hb).kind # "none"
    /\ LET age == get_heartbeat_age_seconds(TimestampStr(hb))
       IN ~(age = NoAge \/ age >= MaxAge)

\* utils.is_watcher_healthy on what read_watcher_heartbeat returned (None
\* for a missing or invalid file)
is_watcher_healthy(hb) ==
    /\ hb.file = "object"
    /\ hb.status = "running"
    /\ TimestampStr(hb).kind # "none"
    /\ LET age == get_heartbeat_age_seconds(TimestampStr(hb))
       IN ~(age = NoAge \/ age > MaxAge)

NoHealth ==
    [checked |-> FALSE, running |-> FALSE, healthy |-> FALSE,
     state |-> "", heartbeat |-> [file |-> "missing", status |-> "",
                                  timestamp |-> [kind |-> "none", age |-> 0],
                                  utc |-> [kind |-> "none", age |-> 0]]]

\* Supervisor.check_watcher_health while the heartbeat file is hb
check_watcher_health(hb) ==
    /\ LET found == check_watcher_process(pc)
           healthy == is_watcher_healthy(hb)
       IN health' = [checked |-> TRUE, running |-> found,
                     healthy |-> healthy,
                     state |-> WatcherState(found, healthy),
                     heartbeat |-> hb]
    /\ UNCHANGED <<fsVars, procVars, dbVars, ghostVars, supVars, atomVars,
                   badVars, returned, ctlVars, startedPaused, lastCreate,
                   hbVars, lastCall, dryRuns, finalVars>>

(***************************************************************************)
(* Supervisor handlers called on their own: handler_func(nas, db,         *)
(* worker_id, task).                                                       *)
(***************************************************************************)
\* rollback_code: "commits_back < 1 or commits_back > 10"
MaxCommitsBack == 10

\* params.commits_back of a rollback task: an int (isint), or another value
\* that int() converts to n (parses) or rejects with ValueError/TypeError
CommitsBack ==
    {[isint |-> TRUE, parses |-> TRUE, n |-> k] :
        k \in {0, 1, MaxCommitsBack, MaxCommitsBack + 1}}
    \cup {[isint |-> FALSE, parses |-> TRUE, n |-> 2],
          [isint |-> FALSE, parses |-> FALSE, n |-> 0]}

\* task.get('params', {}).get('commits_back', 1) when the task has no params
DefaultCommitsBack == [isint |-> TRUE, parses |-> TRUE, n |-> 1]

\* the one step of a handler call that goes wrong: "label" validate_label
\* rejects, "flag" create/delete_pause_flag returns False, "stop"
\* stop_watcher_gracefully returns False, "git" a git command returns
\* non-zero, "pip" pip install returns non-zero, "popen" start_watcher
\* returns False, "db" db.execute raises
HandlerFaults == {"none", "label", "flag", "stop", "git", "pip", "popen", "db"}

NoCall ==
    [handler |-> "", n |-> 0, success |-> FALSE, flagBefore |-> FALSE,
     flagAfter |-> FALSE, audits |-> 0, stopped |-> FALSE, live |-> FALSE,
     spawns |-> 0, reverts |-> 0, commits |-> DefaultCommitsBack]

\* a handler call under way: s the processes, lock, pause flag and audit
\* log; stopped: stop_watcher_gracefully returned True; live: a watcher
\* process check_watcher_process reports was running right after that;
\* spawns: calls of start_watcher; reverts: git reverts that succeeded
CallStart ==
    [s |-> ProcState, success |-> FALSE, stopped |-> FALSE, live |-> FALSE,
     spawns |-> 0, reverts |-> 0]

\* "return {'success': True, ...}" / "return {'success': False, ...}"
Succeed(r) == [r EXCEPT !.success = TRUE]
Fail(r) == [r EXCEPT !.success = FALSE]

\* start_watcher(worker_id) inside a handler
Spawn(r, o) ==
    [r EXCEPT !.spawns = @ + 1,
              !.s = IF o = "popen" THEN @ ELSE start_watcher(@)]

\* "if not stop_watcher_gracefully(worker_id)" inside a handler
Stop(r, o, mode) ==
    IF o = "stop" THEN r
    ELSE LET s1 == stop_watcher_gracefully(r.s, mode)
         IN [r EXCEPT !.s = s1, !.stopped = TRUE,
                      !.live = check_watcher_process(s1.pc)]

\* db.execute(INSERT INTO audit_log_t ...) inside a handler
Audit(r, action) == [r EXCEPT !.s = SupAudit(@, action)]

\* handlers.update_code (deps = FALSE) and handlers.update_code_deps
\* (deps = TRUE): validate_label, stop, git pull, [pip install,]
\* start_watcher, audit row; "except Exception" starts the watcher
UpdateCode(r, o, mode, deps) ==
    IF o = "label" THEN Fail(r)
    ELSE LET r1 == Stop(r, o, mode)
         IN IF ~r1.stopped THEN Fail(r1)
            ELSE IF o = "git" \/ (deps /\ o = "pip") THEN Fail(Spawn(r1, "none"))
            ELSE LET r2 == Spawn(r1, o)
                 IN IF o = "db" THEN Fail(Spawn(r2, "none"))
                    ELSE Succeed(Audit(r2, IF deps THEN "UPDATE_CODE_DEPS"
                                                   ELSE "UPDATE_CODE"))

update_code(r, o, mode) == UpdateCode(r, o, mode, FALSE)

update_code_deps(r, o, mode) == UpdateCode(r, o, mode, TRUE)

\* handlers.rollback_code: validate_label, commits_back parsed and range
\* checked, stop, git revert commits_back times (break at the first that
\* fails), start_watcher, audit row, success = failed_at is None; "except
\* Exception" starts the watcher
rollback_code(r, o, mode, c) ==
    IF o = "label" THEN Fail(r)
    ELSE IF ~c.isint /\ ~c.parses THEN Fail(Spawn(r, "none"))
    ELSE IF c.n < 1 \/ c.n > MaxCommitsBack THEN Fail(r)
    ELSE LET r1 == Stop(r, o, mode)
         IN IF ~r1.stopped THEN Fail(r1)
            ELSE LET r2 == Spawn([r1 EXCEPT !.reverts = IF o = "git" THEN 0
                                                        ELSE c.n], o)
                 IN IF o = "db" THEN Fail(Spawn(r2, "none"))
                    ELSE LET r3 == Audit(r2, "ROLLBACK_CODE")
                         IN IF o = "git" THEN Fail(r3) ELSE Succeed(r3)

\* handlers.diagnostics and handlers.verify_database: they read and report,
\* change nothing and insert no audit row
diagnostics(r, o) == IF o \in {"label", "db"} THEN Fail(r) ELSE Succeed(r)

\* the fault of a call as an outcome of the watcher control handlers
ControlOutcome(o) ==
    CASE o \in {"label", "flag", "stop", "popen"} -> "fail"
      [] o = "db" -> "db"
      [] OTHER -> "ok"

\* HANDLERS[handler](nas, db, worker_id, task)
HandlerCall(r, handler, o, mode, c) ==
    CASE handler = "pause_watcher" ->
            [r EXCEPT !.s = pause_watcher(@, ControlOutcome(o)),
                      !.success = ControlOutcome(o) = "ok"]
      [] handler = "resume_watcher" ->
            [r EXCEPT !.s = resume_watcher(@, ControlOutcome(o)),
                      !.success = ControlOutcome(o) = "ok"]
      [] handler = "restart_watcher" ->
            [r EXCEPT !.s = restart_watcher(@, ControlOutcome(o), mode),
                      !.success = ControlOutcome(o) = "ok",
                      !.stopped = ControlOutcome(o) # "fail",
                      !.live = /\ ControlOutcome(o) # "fail"
                               /\ check_watcher_process(
                                     stop_watcher_gracefully(r.s, mode).pc),
                      !.spawns = IF ControlOutcome(o) # "fail" THEN 1 ELSE 0]
      [] handler = "update_code" -> update_code(r, o, mode)
      [] handler = "update_code_deps" -> update_code_deps(r, o, mode)
      [] handler = "rollback_code" -> rollback_code(r, o, mode, c)
      [] OTHER -> diagnostics(r, o)

\* handlers that stop the watcher, pull or revert, and start it again
CodeHandlers == {"update_code", "update_code_deps", "rollback_code"}

\* one call of a supervisor handler with fault o, the way the stopped
\* watcher ends (mode) and params.commits_back = c
call_handler(handler, o, mode, c) ==
    /\ lastCall.n < MaxCalls
    /\ handler # "rollback_code" => c = DefaultCommitsBack
    /\ handler \notin CodeHandlers \cup {"restart_watcher"} => mode = "graceful"
    /\ LET r == HandlerCall(CallStart, handler, o, mode, c)
           s2 == r.s
       IN /\ ~s2.full
          /\ lastCall' = [handler |-> handler, n |-> lastCall.n + 1,
                          success |-> r.success, flagBefore |-> pauseFlag,
                          flagAfter |-> s2.pauseFlag,
                          audits |-> Len(s2.audit) - Len(audit),
                          stopped |-> r.stopped, live |-> r.live,
                          spawns |-> r.spawns, reverts |-> r.reverts,
                          commits |-> c]
          /\ pc' = s2.pc /\ running' = s2.running /\ lock_dir' = s2.lock_dir
          /\ tasks' = s2.tasks /\ exitCode' = s2.exitCode
          /\ frames' = s2.frames /\ sigInTask' = s2.sigInTask
          /\ relBefore' = s2.relBefore /\ owns' = s2.owns
          /\ launch' = s2.launch /\ startedPaused' = s2.startedPaused
          /\ lockDir' = s2.lockDir /\ ownerFile' = s2.ownerFile
          /\ held' = s2.held /\ pauseFlag' = s2.pauseFlag
          /\ audit' = s2.audit
    /\ UNCHANGED <<inbox, outbox, processing, worker, success, nextId, jobs,
                   sigCount, redelivered, writes, wins, lost, raised,
                   runs, seen, missed, atomVars, badVars, returned,
                   lastCreate, hbVars, autoRestart, supVars, health,
                   dryRuns, finalVars>>

(***************************************************************************)
(* Database: connection retry and the operations.                          *)
(***************************************************************************)
\* the public operations of Database
DbOperations == {"query", "get_one", "execute", "execute_many"}

\* Database(config, retry_delay_seconds=...): base delays tried
RetryDelays == {1, 2}

NoOp ==
    [op |-> "", max_retries |-> 0, retry_delay_seconds |-> 0, attempts |-> 0,
     waits |-> <<>>, failures |-> 0, result |-> ""]

\* Database._get_connection: "for attempt in range(self.max_retries)";
\* conn[k] says whether pool.get_connection() succeeds at attempt k - 1.
\* The number of attempts made
ConnAttempts(max_retries, conn) ==
    IF \E k \in 1..max_retries : conn[k]
    THEN CHOOSE k \in 1..max_retries :
            conn[k] /\ \A j \in 1..(k - 1) : ~conn[j]
    ELSE max_retries

\* Database._get_connection: time.sleep(retry_delay_seconds * 2 ** attempt)
\* after a failed attempt that is not the last one
ConnWaits(max_retries, delay, conn) ==
    LET n == ConnAttempts(max_retries, conn)
        failed == IF \E k \in 1..max_retries : conn[k] THEN n - 1 ELSE n
        slept == IF failed > max_retries - 1 THEN max_retries - 1 ELSE failed
    IN [k \in 1..slept |-> delay * 2 ^ (k - 1)]

\* one call of query / get_one / execute / execute_many on a Database
\* built with max_retries and retry_delay_seconds: _get_connection with
\* its retries, then the statement is run once; a MySQLError of the
\* statement (stmt = FALSE) is re-raised as DatabaseError at once
db_operation(op, max_retries, delay, conn, stmt) ==
    /\ LET n == ConnAttempts(max_retries, conn)
           connected == \E k \in 1..max_retries : conn[k]
       IN dbOp' = [op |-> op, max_retries |-> max_retries,
                   retry_delay_seconds |-> delay, attempts |-> n,
                   waits |-> ConnWaits(max_retries, delay, conn),
                   failures |-> IF ~connected THEN n
                                ELSE IF stmt THEN 0 ELSE 1,
                   result |-> IF connected /\ stmt THEN "ok"
                              ELSE "DatabaseError"]
    /\ UNCHANGED <<fsVars, procVars, dbVars, ghostVars, supVars, atomVars,
                   badVars, returned, ctlVars, startedPaused, lastCreate,
                   hbVars, lastCall, health, dryRuns, lastPass, passList,
                   handled, probe>>

(***************************************************************************)
(* Supervisor: passes of two supervisor processes for the same worker,     *)
(* taken step by step.  Nothing in supervisor.py or control_flow.py keeps  *)
(* a second pass from starting while one is running.                       *)
(***************************************************************************)
Supervisors == {"a", "b"}

\* seconds of the clock that names result files
Seconds == 1..2

\* the second of the latest handler execution so far
LastSecond == IF handled = <<>> THEN 1 ELSE handled[Len(handled)].ts

\* the assignments by which a supervisor step leaves processes, lock,
\* pause flag and audit log as the handlers left them
ApplyProcState(s) ==
    /\ pc' = s.pc /\ running' = s.running /\ lock_dir' = s.lock_dir
    /\ tasks' = s.tasks /\ exitCode' = s.exitCode
    /\ frames' = s.frames /\ sigInTask' = s.sigInTask
    /\ relBefore' = s.relBefore /\ owns' = s.owns
    /\ launch' = s.launch /\ startedPaused' = s.startedPaused
    /\ lockDir' = s.lockDir /\ ownerFile' = s.ownerFile
    /\ held' = s.held /\ pauseFlag' = s.pauseFlag
    /\ audit' = s.audit

\* check_control_flags of pass i up to "tasks.sort": glob *.flag, parse
\* every file, keep the known handlers, sort by priority
pass_list(i, order) ==
    /\ passList[i] = <<>>
    /\ SortByPriority(KnownTasks(order)) # <<>>
    /\ passList' = [passList EXCEPT ![i] = SortByPriority(KnownTasks(order))]
    /\ UNCHANGED <<fsVars, procVars, dbVars, ghostVars, supVars, atomVars,
                   badVars, returned, ctlVars, startedPaused, lastCreate,
                   hbVars, lastCall, health, dryRuns, lastPass, dbOp,
                   handled, probe>>

\* check_control_flags of pass i, one turn of "for task_info in tasks":
\* the handler runs on the task parsed earlier, write_result_file writes
\* supervisor_result_{handler}_{task}_{ts}.json, flag_file.unlink() (a
\* flag that is gone already: the error is logged)
pass_execute(i, o, ts) ==
    /\ passList[i] # <<>>
    /\ ts >= LastSecond
    /\ LET f == Head(passList[i])
           s2 == RunHandler(ProcState, f, o, "graceful")
       IN /\ ~s2.full
          /\ ApplyProcState(s2)
          /\ handled' = Append(handled, [flag |-> f.name, by |-> i, ts |-> ts])
          /\ outbox' = outbox \cup {SupResultFile(f, o = "ok", ts)}
          /\ inbox' = inbox \ {f}
    /\ passList' = [passList EXCEPT ![i] = Tail(@)]
    /\ UNCHANGED <<processing, worker, success, nextId, jobs, supVars,
                   sigCount, redelivered, writes, wins, lost, raised, runs,
                   seen, missed, atomVars, badVars, returned, autoRestart,
                   lastCreate, hbVars, lastCall, health, dryRuns, lastPass,
                   dbOp, probe>>

\* handler executions for the control flag named n
Executions(n) == {k \in DOMAIN handled : handled[k].flag = n}

\* supervisor result files in Worker_Outbox for task t
SupResultsOf(t) == {r \in outbox : r.kind = "sup_result" /\ r.task_id = t}

(***************************************************************************)
(* Process probe at command-line level.  A command line is the string     *)
(* ' '.join(cmdline), kept as a sequence of chunks; "x in cmdline_str" is  *)
(* a search for a contiguous run of chunks.                                *)
(***************************************************************************)
MaxProcesses == 2

\* worker ids as chunk sequences: "Orion", "OrionMX", "Vega"
WorkerNames == {<<"Orion">>, <<"Orion", "MX">>, <<"Vega">>}

\* how a process was started: the watcher as a file, the watcher as a
\* module (utils.start_watcher), or another script of the worker
Programs == {"file", "module", "other"}

\* ' '.join(cmdline) of a process started as prog with --worker-id w
CmdLine(prog, w) ==
    (CASE prog = "file" ->
            <<"python", " ", "scripts/watcher/", "spec_watcher", ".py">>
       [] prog = "module" ->
            <<"python", " ", "-m", " ", "scripts.watcher", ".", "spec_watcher">>
       [] OTHER -> <<"python", " ", "scripts/", "report", ".py">>)
    \o <<" ", "--worker-id", " ">> \o w
    \o <<" ", "--config", " ", "config.dev.yaml">>

\* Python's "sub in str"
Contains(sub, str) ==
    \E i \in 0..(Len(str) - Len(sub)) :
        SubSeq(str, i + 1, i + Len(sub)) = sub

\* utils.check_watcher_process: has_watcher and has_worker_id
ProbeMatches(cmdline_str, worker_id) ==
    /\ \/ Contains(<<"spec_watcher", ".py">>, cmdline_str)
       \/ Contains(<<"spec_watcher">>, cmdline_str)
       \/ Contains(<<"scripts.watcher">>, cmdline_str)
    /\ Contains(worker_id, cmdline_str)

\* utils.stop_watcher_gracefully: 'spec_watcher.py' in ' '.join(cmdline)
\* and worker_id in ' '.join(cmdline)
StopMatches(cmdline_str, worker_id) ==
    /\ Contains(<<"spec_watcher", ".py">>, cmdline_str)
    /\ Contains(worker_id, cmdline_str)

\* no process matched
NoMatch == [prog |-> "", worker_id |-> <<>>]

\* first process of the table (psutil.process_iter order) that matches
FirstMatch(hits) ==
    IF hits = {} THEN 0 ELSE CHOOSE i \in hits : \A j \in hits : i <= j

\* positions of the processes check_watcher_process matches
ProbeHits(table, worker_id) ==
    {i \in 1..Len(table) :
        ProbeMatches(CmdLine(table[i].prog, table[i].worker_id), worker_id)}

\* positions of the processes stop_watcher_gracefully matches
StopHits(table, worker_id) ==
    {i \in 1..Len(table) :
        StopMatches(CmdLine(table[i].prog, table[i].worker_id), worker_id)}

NoProbe == [table |-> <<>>, op |-> "", by |-> <<>>, matched |-> NoMatch]

\* the frame of a probe step
ProbeOnly ==
    UNCHANGED <<fsVars, procVars, dbVars, ghostVars, supVars, atomVars,
                badVars, returned, ctlVars, startedPaused, lastCreate,
                hbVars, lastCall, health, dryRuns, lastPass, dbOp, passList,
                handled>>

\* a process of some worker is started on the host
spawn_process(prog, w) ==
    /\ Len(probe.table) < MaxProcesses
    /\ probe' = [probe EXCEPT
                   !.table = Append(@, [prog |-> prog, worker_id |-> w])]
    /\ ProbeOnly

\* utils.check_watcher_process(worker_id): True at the first process
\* whose command line has the watcher token and the worker id
probe_watcher(worker_id) ==
    /\ LET i == FirstMatch(ProbeHits(probe.table, worker_id))
       IN probe' = [probe EXCEPT !.op = "check", !.by = worker_id,
                      !.matched = IF i = 0 THEN NoMatch ELSE probe.table[i]]
    /\ ProbeOnly

\* utils.stop_watcher_gracefully(worker_id): the first matching process
\* gets TERM (KILL after the timeout) and is gone; none found returns True
stop_watcher(worker_id) ==
    /\ LET i == FirstMatch(StopHits(probe.table, worker_id))
       IN probe' = [table |-> IF i = 0 THEN probe.table
                              ELSE SubSeq(probe.table, 1, i - 1)
                                   \o SubSeq(probe.table, i + 1,
                                             Len(probe.table)),
                    op |-> "stop", by |-> worker_id,
                    matched |-> IF i = 0 THEN NoMatch ELSE probe.table[i]]
    /\ ProbeOnly

NextProbe ==
    \/ \E prog \in Programs, w \in WorkerNames : spawn_process(prog, w)
    \/ \E w \in WorkerNames : probe_watcher(w)
    \/ \E w \in WorkerNames : stop_watcher(w)


(***************************************************************************)
(* Console: result consumer.  Worker_Outbox is the console's inbox.        *)
(***************************************************************************)
\* position of a result file name in string order: "{task_id}.error.json"
\* < "{task_id}.result.json" < "supervisor_result_..."
ResultRank(k) == CASE k = "error" -> 1 [] k = "result" -> 2 [] OTHER -> 3

ResultLess(a, b) ==
    IF (a.kind = "sup_result") # (b.kind = "sup_result")
    THEN b.kind = "sup_result"
    ELSE IF a.kind = "sup_result"
    THEN \/ HandlerRank(a.handler) < HandlerRank(b.handler)
         \/ a.handler = b.handler /\ a.task_id < b.task_id
         \/ a.handler = b.handler /\ a.task_id = b.task_id /\ a.ts < b.ts
    ELSE \/ a.task_id < b.task_id
         \/ a.task_id = b.task_id /\ ResultRank(a.kind) < ResultRank(b.kind)

\* sorted(self.inbox_path.glob("*.json"))
RECURSIVE SortedResults(_)
SortedResults(S) ==
    IF S = {} THEN <<>>
    ELSE LET m == CHOOSE x \in S : \A y \in S \ {x} : ResultLess(x, y)
         IN <<m>> \o SortedResults(S \ {m})

\* a lookup that takes the newest row whatever its task_id
map_task_id_to_job_id_Latest(task_id, J) == Len(J)

\* map_task_id_to_job_id: job_id of the row with this task_id, 0 for None
map_task_id_to_job_id(task_id, J) ==
    IF \E j \in 1..Len(J) : J[j].task_id = task_id
    THEN CHOOSE j \in 1..Len(J) : J[j].task_id = task_id
    ELSE 0

\* extract_error_message: None ("" here) if success is True, else the
\* top-level error if it is set, else result.error if it is set
extract_error_message(f) ==
    IF f.success THEN ""
    ELSE IF f.error # "" THEN f.error
    ELSE f.result_error

\* ResultProcessor.update_job_result: UPDATE jobs_t SET state = ...,
\* last_error = ... WHERE job_id = ...; hist keeps the values the state has
\* taken
update_job_result(J, job_id, ok, error) ==
    LET state == IF ok THEN "succeeded" ELSE "failed"
    IN [J EXCEPT ![job_id] =
          [@ EXCEPT !.state = state,
                    !.last_error = error,
                    !.hist = IF J[job_id].state = state THEN @
                             ELSE Append(@, state)]]

\* ResultProcessor._process_job_result on one file: db is [jobs, audit]
process_job_result(db, f) ==
    LET job_id == map_task_id_to_job_id(f.task_id, db.jobs)
    IN IF job_id # 0
       THEN [jobs |-> update_job_result(db.jobs, job_id, f.success,
                                        extract_error_message(f)),
             audit |-> db.audit \o
                 <<AuditRow("result_processor", "JOB_COMPLETED",
                            "job_result", job_id),
                   AuditRow("result_processor", "PROCESS_RESULT",
                            "job_result", job_id)>>]
       ELSE [jobs |-> db.jobs,
             audit |-> Append(db.audit,
                              AuditRow("result_processor", "PROCESS_RESULT",
                                       "job_result", 0))]

\* the loop of process_pending_results over the sorted files
RECURSIVE ProcessFiles(_, _)
ProcessFiles(db, files) ==
    IF files = <<>> THEN db
    ELSE ProcessFiles(process_job_result(db, Head(files)), Tail(files))

\* ResultProcessor.process_pending_results; cleanup is
\* cleanup_processed_results (delete each processed file)
process_pending_results(cleanup) ==
    /\ calls < MaxCalls
    /\ calls' = calls + 1
    /\ LET db == ProcessFiles([jobs |-> jobs, audit |-> audit],
                              SortedResults(outbox))
       IN /\ jobs' = db.jobs
          /\ audit' = db.audit
    /\ outbox' = IF cleanup THEN {} ELSE outbox
    /\ UNCHANGED <<inbox, processing, lockDir, ownerFile, procVars, nextId,
                   ghostVars, passes, actions_taken, executed, listing>>
    /\ UNCHANGED extVars

ErrorTexts == {"", "top", "nested"}

\* a result file reaches the console's inbox: {task_id}.result.json or
\* {task_id}.error.json with any top-level error and result.error, for
\* a task that has no result file waiting there; at most MaxWrites files
\* are written
deliver_result(t, ok, error, result_error) ==
    /\ \A r \in outbox : r.task_id # t
    /\ wver < MaxWrites
    /\ wver' = wver + 1
    /\ outbox' = {r \in outbox : ~(r.kind = ResultKind(ok) /\ r.task_id = t)}
                    \cup {[kind |-> ResultKind(ok), task_id |-> t,
                           handler |-> "",
                           ts |-> 0, success |-> ok, error |-> error,
                           result_error |-> result_error]}
    /\ UNCHANGED <<inbox, processing, lockDir, ownerFile, procVars, dbVars,
                   ghostVars, supVars>>
    /\ UNCHANGED <<dirFiles, wpc, wres, rnames, observed, badVars, returned,
                   ctlVars, startedPaused, lastCreate,
                   lateVars>>

(***************************************************************************)
(* write_flag_atomically at the level of the files it creates, and a       *)
(* reader of the same directory.  A path is a stem and its suffixes; a     *)
(* file is [path, ver, len]: the payload of call ver, len chunks of it     *)
(* written.                                                                *)
(***************************************************************************)
FlagPath == [stem |-> "sample", ext |-> <<"flag">>]

\* a write that opens the destination itself
TmpPath_InPlace(flag_path) == flag_path

\* tmp_path = flag_path.with_suffix(flag_path.suffix + ".tmp")
TmpPath(flag_path) == [flag_path EXCEPT !.ext = Append(@, "tmp")]

\* glob("*.flag"): the last suffix of the name is .flag
GlobFlag(path) == path.ext[Len(path.ext)] = "flag"

FileAt(path) == {f \in dirFiles : f.path = path}

\* the writer leaves the try block by an exception
WriteFails ==
    /\ wpc' = "finally"
    /\ wres' = "failed"

\* open(tmp_path, "w"): creates or truncates the temporary file
wf_open(ok) ==
    /\ wpc = "idle" /\ wver < MaxWrites
    /\ wver' = wver + 1
    /\ IF ok
       THEN /\ dirFiles' = (dirFiles \ FileAt(TmpPath(FlagPath)))
                           \cup {[path |-> TmpPath(FlagPath), ver |-> wver + 1,
                                  len |-> 0]}
            /\ wpc' = "dump"
            /\ wres' = "running"
       ELSE /\ WriteFails
            /\ UNCHANGED dirFiles
    /\ UNCHANGED <<rnames, observed>>
    /\ UNCHANGED restVars

\* json.dump(flag_data, handle): one more chunk reaches the file, or the
\* dump raises
wf_dump(ok) ==
    /\ wpc = "dump"
    /\ IF ok
       THEN /\ dirFiles' = {IF f.path = TmpPath(FlagPath)
                         THEN [f EXCEPT !.len = @ + 1] ELSE f : f \in dirFiles}
            /\ wpc' = IF \A f \in FileAt(TmpPath(FlagPath)) :
                            f.len + 1 = PayloadChunks
                      THEN "fsync" ELSE "dump"
            /\ UNCHANGED wres
       ELSE /\ WriteFails
            /\ UNCHANGED dirFiles
    /\ UNCHANGED <<wver, rnames, observed>>
    /\ UNCHANGED restVars

\* handle.flush(); os.fsync(handle.fileno())
wf_fsync(ok) ==
    /\ wpc = "fsync"
    /\ IF ok THEN wpc' = "replace" /\ UNCHANGED wres ELSE WriteFails
    /\ UNCHANGED <<dirFiles, wver, rnames, observed>>
    /\ UNCHANGED restVars

\* os.replace(tmp_path, flag_path): the temporary file takes the final
\* name in one step, replacing a file of that name
wf_replace(ok) ==
    /\ wpc = "replace"
    /\ IF ok
       THEN /\ dirFiles' = (dirFiles \ (FileAt(FlagPath) \cup FileAt(TmpPath(FlagPath))))
                           \cup {[f EXCEPT !.path = FlagPath] :
                                    f \in FileAt(TmpPath(FlagPath))}
            /\ wpc' = "finally"
            /\ wres' = "ok"
       ELSE /\ WriteFails
            /\ UNCHANGED dirFiles
    /\ UNCHANGED <<wver, rnames, observed>>
    /\ UNCHANGED restVars

\* finally: if tmp_path.exists(): tmp_path.unlink()
wf_finally ==
    /\ wpc = "finally"
    /\ dirFiles' = dirFiles \ FileAt(TmpPath(FlagPath))
    /\ wpc' = "idle"
    /\ UNCHANGED <<wver, wres, rnames, observed>>
    /\ UNCHANGED restVars

\* a reader lists the directory with *.flag
rd_list ==
    /\ rnames = {}
    /\ rnames' = {f.path : f \in {g \in dirFiles : GlobFlag(g.path)}}
    /\ rnames' # {}
    /\ UNCHANGED <<dirFiles, wpc, wver, wres, observed>>
    /\ UNCHANGED restVars

\* the reader opens and reads a listed file: what is under the name now
rd_read(path) ==
    /\ path \in rnames
    /\ rnames' = rnames \ {path}
    /\ observed' = observed \cup
          {[ver |-> f.ver, len |-> f.len, during |-> wpc] : f \in FileAt(path)}
    /\ UNCHANGED <<dirFiles, wpc, wver, wres>>
    /\ UNCHANGED restVars

(***************************************************************************)
(* Watcher.record_result at the level of the file it writes, and the       *)
(* console reading Worker_Outbox.                                          *)
(***************************************************************************)
\* result_file = outbox_path / f"{task_id}.result.json"
ResultPath == [stem |-> "1", ext |-> <<"result", "json">>]

\* glob("*.json"): the last suffix of the name is .json
GlobJson(path) == path.ext[Len(path.ext)] = "json"

\* with open(result_file, "w") as f: the file is created, or truncated,
\* under its final name; an error is caught and logged by record_result
rr_open(ok) ==
    /\ wpc = "idle" /\ wver < MaxWrites
    /\ wver' = wver + 1
    /\ IF ok
       THEN /\ dirFiles' = (dirFiles \ FileAt(ResultPath))
                              \cup {[path |-> ResultPath, ver |-> wver + 1,
                                     len |-> 0]}
            /\ wpc' = "rr_dump"
            /\ wres' = "running"
       ELSE /\ wres' = "failed"
            /\ UNCHANGED <<dirFiles, wpc>>
    /\ UNCHANGED <<rnames, observed>>
    /\ UNCHANGED restVars

\* json.dump(result_data, f, indent=2): one more chunk reaches the file;
\* an error is caught and logged, the file stays as it is
rr_dump(ok) ==
    /\ wpc = "rr_dump"
    /\ IF ok
       THEN /\ dirFiles' = {IF f.path = ResultPath
                            THEN [f EXCEPT !.len = @ + 1] ELSE f : f \in dirFiles}
            /\ LET done == \A f \in FileAt(ResultPath) : f.len + 1 = PayloadChunks
               IN /\ wpc' = IF done THEN "idle" ELSE "rr_dump"
                  /\ wres' = IF done THEN "ok" ELSE wres
       ELSE /\ wpc' = "idle"
            /\ wres' = "failed"
            /\ UNCHANGED dirFiles
    /\ UNCHANGED <<wver, rnames, observed>>
    /\ UNCHANGED restVars

\* process_pending_results lists the directory with *.json
rd_list_json ==
    /\ rnames = {}
    /\ rnames' = {f.path : f \in {g \in dirFiles : GlobJson(g.path)}}
    /\ rnames' # {}
    /\ UNCHANGED <<dirFiles, wpc, wver, wres, observed>>
    /\ UNCHANGED restVars

(***************************************************************************)
(* Initial states and specifications.                                      *)
(***************************************************************************)
\* empty directories and tables, nothing done yet
InitStores ==
    /\ inbox = {} /\ outbox = {}
    /\ processing = [t \in TaskIds |-> NoProc]
    /\ nextId = 1 /\ jobs = <<>> /\ audit = <<>>
    /\ sigCount = 0 /\ redelivered = 0
    /\ writes = [t \in TaskIds |-> <<>>]
    /\ wins = [t \in TaskIds |-> {}]
    /\ lost = [t \in TaskIds |-> {}]
    /\ raised = [t \in TaskIds |-> {}]
    /\ runs = [t \in TaskIds |-> {}]
    /\ seen = [p \in Procs |-> {}]
    /\ missed = [p \in Procs |-> {}]
    /\ sigInTask = [p \in Procs |-> 0]
    /\ relBefore = [p \in Procs |-> FALSE]
    /\ owns = [p \in Procs |-> FALSE]
    /\ passes = 0 /\ actions_taken = <<>> /\ executed = <<>>
    /\ listing = <<>> /\ calls = 0
    /\ tasks = [p \in Procs |-> <<>>]
    /\ success = [p \in Procs |-> FALSE]
    /\ exitCode = [p \in Procs |-> -1]
    /\ frames = [p \in Procs |-> <<>>]
    /\ dirFiles = {} /\ wpc = "idle" /\ wver = 0 /\ wres = "none"
    /\ rnames = {} /\ observed = {}
    /\ bad = {} /\ skipped = [p \in Procs |-> {}]
    /\ returned = [t \in TaskIds |-> "none"]
    /\ pauseFlag = FALSE
    /\ launch = [p \in Procs |-> "file"]
    /\ autoRestart = [found |-> FALSE, paused |-> FALSE, called |-> FALSE,
                      born |-> {}, state |-> "stopped"]
    /\ startedPaused = [p \in Procs |-> FALSE]
    /\ lastCreate = [invalid |-> FALSE, success |-> FALSE, changed |-> FALSE]
    /\ clock = 0 /\ hbpc = "init"
    /\ last_scan_time = 0 /\ last_heartbeat_time = 0
    /\ heartbeat = -1 /\ hbGap = 0
    /\ lastCall = NoCall
    /\ health = NoHealth
    /\ dryRuns = [p \in Procs |-> 0]
    /\ lastPass = NoPass
    /\ dbOp = NoOp
    /\ passList = [i \in Supervisors |-> <<>>]
    /\ handled = <<>>
    /\ probe = NoProbe

\* watchers with distinct worker ids share one inbox and one processing/;
\* each holds its own lock and is in its event loop
InitShared ==
    /\ InitStores
    /\ worker = [p \in Procs |-> p]
    /\ pc = [p \in Procs |-> "loop"]
    /\ running = [p \in Procs |-> TRUE]
    /\ lock_dir = [p \in Procs |-> TRUE]
    /\ held = [p \in Procs |-> TRUE]
    /\ lockDir = [w \in WorkerIds |-> TRUE]
    /\ ownerFile = [w \in WorkerIds |-> w]

\* no watcher started yet; every process will be started with worker id 1
InitLock ==
    /\ InitStores
    /\ worker = [p \in Procs |-> 1]
    /\ pc = [p \in Procs |-> "idle"]
    /\ running = [p \in Procs |-> TRUE]
    /\ lock_dir = [p \in Procs |-> FALSE]
    /\ held = [p \in Procs |-> FALSE]
    /\ lockDir = [w \in WorkerIds |-> FALSE]
    /\ ownerFile = [w \in WorkerIds |-> NoProc]

TaskHandlers == {"acquire_source", "nonexistent"}

\* the steps of a watcher's scan
WatcherScan(p) ==
    \/ run_tick(p)
    \/ for_task(p)
    \/ \E os \in Platforms : claim_task(p, os)
    \/ \E out \in {"ok", "raise"} : execute_handler(p, out)
    \/ record_result_unlink(p)
    \/ record_result_write(p)

Producers ==
    \/ \E h \in TaskHandlers, lv \in BOOLEAN, hp \in BOOLEAN :
          create_job_flag(h, lv, hp)
    \/ \E h \in TaskHandlers : write_task_flag(h)

NextShared ==
    \/ Producers
    \/ \E p \in Procs : WatcherScan(p)

NextRedeliver ==
    \/ NextShared
    \/ \E t \in TaskIds, h \in TaskHandlers : redeliver_task_flag(t, h)

NextLock ==
    \/ \E h \in TaskHandlers : write_task_flag(h)
    \/ \E p \in Procs :
          \/ start_watcher_process(p)
          \/ acquire_lock(p)
          \/ write_lock_owner(p)
          \/ WatcherScan(p)
          \/ release_lock_owner(p)
          \/ release_lock_rmdir(p)
          \/ release_lock_clear(p)
          \/ handle_shutdown(p)

\* the claim race alone: {task_id}.flag files, each name written once
NextClaim ==
    \/ \E h \in JOB_HANDLERS : write_task_flag(h)
    \/ \E p \in Procs : WatcherScan(p)

SpecClaim == InitShared /\ [][NextClaim]_vars

\* watchers of distinct worker ids sharing Worker_Inbox and processing/
SpecShared == InitShared /\ [][NextShared]_vars

\* the same, with flag file names that can enter the inbox again
SpecRedeliver == InitShared /\ [][NextRedeliver]_vars

\* watcher processes of one worker id: lock, event loop, shutdown signals
SpecLock == InitLock /\ [][NextLock]_vars

NextHandler ==
    \/ \E h \in TaskHandlers : write_task_flag(h)
    \/ \E p \in Procs :
          \/ run_tick(p)
          \/ for_task(p)
          \/ \E os \in Platforms : claim_task(p, os)
          \/ \E out \in HandlerOutcomes : execute_handler(p, out)
          \/ record_result_unlink(p)
          \/ record_result_write(p)

\* watchers whose handlers return success, return failure, or raise
SpecHandler == InitShared /\ [][NextHandler]_vars

\* the flags that create and delete the pause flag
PauseControls == {"pause_watcher", "resume_watcher"}

NextAutoRestart ==
    \/ \E h \in PauseControls, w \in BOOLEAN, lv \in BOOLEAN :
          create_supervisor_flag(h, w, lv)
    \/ \E order \in Listings(inbox) :
          \E out \in [{f.name : f \in inbox} -> {"ok", "fail"}],
             healthy \in BOOLEAN, popen \in BOOLEAN, mode \in StopModes :
             run_once(order, out, healthy, popen, mode)
    \/ \E p \in Procs :
          \/ acquire_lock(p)
          \/ write_lock_owner(p)

\* the supervisor of one worker id, pause and resume flags, and the
\* watchers it spawns
SpecAutoRestart == InitLock /\ [][NextAutoRestart]_vars

\* the flags that can leave a watcher started under a pause flag
RestartControls == {"pause_watcher", "restart_watcher"}

NextPaused ==
    \/ \E h \in RestartControls : create_supervisor_flag(h, TRUE, TRUE)
    \/ \E h \in JOB_HANDLERS : write_task_flag(h)
    \/ \E order \in Listings(inbox) :
          \E out \in [{f.name : f \in inbox} -> ControlOutcomes],
             mode \in StopModes :
             run_once(order, out, TRUE, TRUE, mode)
    \/ \E p \in Procs :
          \/ start_watcher_process(p)
          \/ acquire_lock(p)
          \/ write_lock_owner(p)
          \/ run_tick(p)
          \/ for_task(p)
          \/ claim_task(p, "posix")
          \/ execute_handler(p, "ok")
          \/ record_result_unlink(p)
          \/ record_result_write(p)

\* the supervisor, watchers started by hand or by the supervisor, and the
\* watchers' scans
SpecPaused == InitLock /\ [][NextPaused]_vars

BadShapes == {"malformed", "non_object"}

\* handler names given to the create calls: registered for either flag
\* type, unknown, empty
CreateHandlers == SUPERVISOR_HANDLERS \cup JOB_HANDLERS \cup {"", "nonexistent"}

\* the console's create calls with valid and invalid arguments, and
\* supervisor passes
NextCreate ==
    \/ \E h \in CreateHandlers,
          w \in BOOLEAN, lv \in BOOLEAN :
          create_supervisor_flag(h, w, lv)
    \/ \E h \in CreateHandlers,
          lv \in BOOLEAN, hp \in BOOLEAN :
          create_job_flag(h, lv, hp)
    \/ \E order \in Listings(inbox) :
          \E out \in [{f.name : f \in inbox} -> Outcomes] :
             check_control_flags(order, out, {})

\* the console creating flags, and the supervisor consuming control flags
SpecCreate == InitShared /\ [][NextCreate]_vars

NextHandlers ==
    \/ \E handler \in SUPERVISOR_HANDLERS, o \in HandlerFaults,
          mode \in StopModes, c \in CommitsBack :
          call_handler(handler, o, mode, c)
    \/ \E p \in Procs :
          \/ start_watcher_process(p)
          \/ acquire_lock(p)
          \/ write_lock_owner(p)

\* supervisor handlers called one after another, with watchers started by
\* hand or by the handlers
SpecHandlers == InitLock /\ [][NextHandlers]_vars

NextHealth ==
    \/ \E hb \in HeartbeatFiles : check_watcher_health(hb)
    \/ \E p \in Procs :
          \/ start_watcher_process(p)
          \/ acquire_lock(p)
          \/ write_lock_owner(p)

\* health checks against every heartbeat file, while watchers are started
SpecHealth == InitLock /\ [][NextHealth]_vars

NextDryRun ==
    \/ \E h \in JOB_HANDLERS : write_task_flag(h)
    \/ \E shape \in BadShapes : write_bad_flag(shape)
    \/ \E p \in Procs :
          \/ dry_run(p)
          \/ start_watcher_process(p)
          \/ acquire_lock(p)
          \/ write_lock_owner(p)

\* watchers started normally or with --dry-run for the same worker id,
\* while flag files arrive
SpecDryRun == InitLock /\ [][NextDryRun]_vars

\* the watcher whose shutdown is followed
FirstProc == 1

NextShutdown ==
    \/ \E h \in JOB_HANDLERS : write_task_flag(h)
    \/ run_tick(FirstProc)
    \/ for_task(FirstProc)
    \/ claim_task(FirstProc, "posix")
    \/ \E out \in {"ok", "raise"} : execute_handler(FirstProc, out)
    \/ record_result_unlink(FirstProc)
    \/ record_result_write(FirstProc)
    \/ handle_shutdown(FirstProc)
    \/ release_lock_owner(FirstProc)
    \/ release_lock_rmdir(FirstProc)
    \/ release_lock_clear(FirstProc)

\* one watcher in its event loop, flags arriving, TERM/INT at any moment
SpecShutdown == InitShared /\ [][NextShutdown]_vars

NextSupervisor ==
    \/ \E h \in PauseControls, w \in BOOLEAN, lv \in BOOLEAN :
          create_supervisor_flag(h, w, lv)
    \/ \E order \in Listings(inbox) :
          \E out \in [{f.name : f \in inbox} -> {"ok", "fail"}],
             healthy \in BOOLEAN, popen \in BOOLEAN :
             run_once(order, out, healthy, popen, "graceful")
    \/ \E where \in RaisePoints, known \in BOOLEAN, popen \in BOOLEAN :
          run_once_raises(where, known, popen)
    \/ \E p \in Procs :
          \/ acquire_lock(p)
          \/ write_lock_owner(p)

\* supervisor passes on their success path and on both error paths
SpecSupervisor == InitLock /\ [][NextSupervisor]_vars

NextDatabase ==
    \E op \in DbOperations, max_retries \in 1..MaxRetries,
       delay \in RetryDelays, stmt \in BOOLEAN :
       \E conn \in [1..max_retries -> BOOLEAN] :
          db_operation(op, max_retries, delay, conn, stmt)

\* Database operations against a server whose connections and statements
\* fail at will
SpecDatabase == InitShared /\ [][NextDatabase]_vars

NextHeartbeat ==
    \/ run_start
    \/ \E dur \in 0..MaxDuration, stop \in BOOLEAN : loop_turn(dur, stop)

\* the event loop of one watcher against wall time
SpecHeartbeat == InitShared /\ [][NextHeartbeat]_vars

\* the console: jobs created, result files arriving, results processed
NextResults ==
    \/ \E h \in JOB_HANDLERS : create_job_flag(h, TRUE, TRUE)
    \/ \E t \in TaskIds, ok \in BOOLEAN,
          e \in ErrorTexts \ {"nested"}, re \in ErrorTexts \ {"top"} :
          deliver_result(t, ok, e, re)
    \/ \E cleanup \in BOOLEAN : process_pending_results(cleanup)

SpecResults == InitShared /\ [][NextResults]_vars

\* an inbox the supervisor shares with job flags, flags of unknown
\* handlers and files that hold no task object
NextInbox ==
    \/ \E h \in SUPERVISOR_HANDLERS : create_supervisor_flag(h, TRUE, TRUE)
    \/ \E h \in JOB_HANDLERS : create_job_flag(h, TRUE, TRUE)
    \/ \E h \in TaskHandlers \cup {""} : write_task_flag(h)
    \/ \E shape \in BadShapes : write_bad_flag(shape)
    \/ \E order \in Listings(inbox) :
          \E out \in [{f.name : f \in inbox} -> Outcomes] :
             check_control_flags(order, out, {})

SpecInbox == InitShared /\ [][NextInbox]_vars

NextBadFlag ==
    \/ \E h \in JOB_HANDLERS : write_task_flag(h)
    \/ \E shape \in BadShapes : write_bad_flag(shape)
    \/ \E p \in Procs : WatcherScan(p)

\* watchers scanning an inbox that also holds files without a task object
SpecBadFlag == InitShared /\ [][NextBadFlag]_vars

NextAtomic ==
    \/ \E ok \in BOOLEAN : wf_open(ok)
    \/ \E ok \in BOOLEAN : wf_dump(ok)
    \/ \E ok \in BOOLEAN : wf_fsync(ok)
    \/ \E ok \in BOOLEAN : wf_replace(ok)
    \/ wf_finally
    \/ rd_list
    \/ \E path \in rnames : rd_read(path)

\* one flag path written repeatedly, and a reader of its directory
SpecAtomic == InitShared /\ [][NextAtomic]_vars

NextPublish ==
    \/ \E ok \in BOOLEAN : rr_open(ok)
    \/ \E ok \in BOOLEAN : rr_dump(ok)
    \/ rd_list_json
    \/ \E path \in rnames : rd_read(path)

\* one result file written by record_result, and the console reading it
SpecPublish == InitShared /\ [][NextPublish]_vars

C2_ClaimExclusiveSilent ==
    /\ \A p, q \in Procs :
          p # q /\ owns[p] /\ owns[q] => Cur(p).task_id # Cur(q).task_id
    /\ \A p \in Procs : pc[p] \in {"exec", "rec_unlink", "rec_write"} => owns[p]
    /\ \A p \in Procs :
          owns[p] /\ pc[p] \in {"exec", "rec_unlink"}
             => processing[Cur(p).task_id] = p

\* C3: a job flag written by create_job_flag that is in the inbox when a
\* running watcher scans is claimed in that scan and has its result or
\* error file in Worker_Outbox when the scan ends.
C3_JobFlagHandledInScan == \A p \in Procs : missed[p] = {}

\* p has acquired the lock and has not begun to release it
Holding(p) ==
    /\ Alive(p) /\ held[p] /\ lock_dir[p]
    /\ frames[p] = <<>> /\ pc[p] \notin {"rel1", "rel2", "rel3"}

\* C4: per worker id at most one watcher process at a time has acquired the
\* lock; an acquire_lock made while the directory exists returns None, the
\* process exits 1 without setting lock_dir, and the holder's directory and
\* owner.json stay as they are.
C4_LockUnique ==
    /\ \A w \in WorkerIds :
          Cardinality({p \in Procs : worker[p] = w /\ Alive(p) /\ held[p]}) <= 1
    /\ \A p \in Procs : pc[p] = "exited" /\ exitCode[p] = 1 => ~lock_dir[p]
    /\ \A p \in Procs :
          Holding(p) => lockDir[worker[p]] /\ ownerFile[worker[p]] = p

\* a second process failed to acquire the lock its holder still has
C4_Witness ==
    \E p, q \in Procs :
       /\ p # q /\ worker[p] = worker[q]
       /\ Holding(p) /\ pc[q] = "exited" /\ exitCode[q] = 1

InLoop(p) == pc[p] \in {"loop", "for", "claim", "exec", "rec_unlink", "rec_write"}

\* C5: the lock directory of a watcher exists from acquire_lock until its
\* event loop has exited (a signal only sets running = false), so that
\* while a watcher executes a handler or publishes a result no second
\* watcher of the same worker id has acquired the lock.
C5_LockHeldUntilLoopExit ==
    /\ \A p \in Procs :
          InLoop(p) => lockDir[worker[p]] /\ ownerFile[worker[p]] = p
    /\ \A p, q \in Procs :
          p # q /\ worker[p] = worker[q]
             /\ pc[p] \in {"exec", "rec_unlink", "rec_write"}
             => ~InLoop(q)

\* C6: a signal that arrives while a handler executes: the handler
\* completes, the task's result or error file is published, the lock
\* directory is removed after that, and the process exits with code 0.
C6_ShutdownMidHandler ==
    \A p \in Procs :
       pc[p] = "exited" /\ sigInTask[p] # 0
          => /\ ~Unpublished(p)
             /\ ~relBefore[p]
             /\ exitCode[p] = 0

ControlHandlers == SUPERVISOR_HANDLERS \cup {"acquire_source"}

NextControl ==
    \/ \E h \in ControlHandlers, w \in BOOLEAN, lv \in BOOLEAN :
          create_supervisor_flag(h, w, lv)
    \/ \E order \in Listings(inbox) :
          \E out \in [{f.name : f \in inbox} -> Outcomes],
             stuck \in SUBSET {f.name : f \in inbox} :
             check_control_flags(order, out, stuck)
    \/ \E cleanup \in BOOLEAN : process_pending_results(cleanup)

\* supervisor passes alone, every unlink succeeding: the inbox holds
\* control flags and {task_id}.flag files of the watcher
NextPass ==
    \/ \E h \in ControlHandlers, w \in BOOLEAN, lv \in BOOLEAN :
          create_supervisor_flag(h, w, lv)
    \/ \E h \in JOB_HANDLERS : write_task_flag(h)
    \/ \E order \in Listings(inbox) :
          \E out \in [{f.name : f \in inbox} -> Outcomes] :
             check_control_flags(order, out, {})

SpecPass == InitShared /\ [][NextPass]_vars

\* console and supervisor: control flags, supervisor passes, results
SpecControl == InitShared /\ [][NextControl]_vars

Terminal == {"succeeded", "failed"}

IsPrefix(s, t) == Len(s) <= Len(t) /\ \A i \in 1..Len(s) : s[i] = t[i]

\* C7: the values a job row's state takes form a prefix of
\* queued, running, then exactly one of succeeded or failed.
C7_StatePrefix ==
    \A j \in 1..Len(jobs) :
       \E final \in Terminal :
          IsPrefix(jobs[j].hist, <<"queued", "running", final>>)

\* C8: once a job row is succeeded or failed its state never changes
\* again, whatever result files later process_pending_results calls read.
C8_TerminalIsFinal ==
    \A j \in 1..Len(jobs) :
       \A i \in 1..Len(jobs[j].hist) :
          jobs[j].hist[i] \in Terminal => i = Len(jobs[j].hist)

\* C9: in one supervisor pass the handlers are executed, and listed in the
\* returned actions, in non-decreasing priority number, whatever the order
\* of the directory listing.
C9_PriorityOrder ==
    /\ Len(actions_taken) = Len(executed)
    /\ \A i \in 1..Len(executed) :
          actions_taken[i].handler = executed[i].handler
    /\ \A i, j \in 1..Len(executed) :
          i < j => HANDLER_PRIORITY(executed[i].handler)
                      <= HANDLER_PRIORITY(executed[j].handler)

\* a pass ran two handlers of different priority that the directory
\* listing had returned in the opposite order
C9_Witness ==
    \E i, j \in 1..Len(listing) :
       /\ i < j
       /\ listing[i].handler \in HANDLERS /\ listing[j].handler \in HANDLERS
       /\ HANDLER_PRIORITY(listing[i].handler)
             > HANDLER_PRIORITY(listing[j].handler)
       /\ Len(executed) >= 2

\* C10: control flags of equal priority are executed in ascending flag
\* file name, whatever the order of the directory listing.
C10_TiesByFilename ==
    \A i, j \in 1..Len(executed) :
       i < j /\ HANDLER_PRIORITY(executed[i].handler)
                   = HANDLER_PRIORITY(executed[j].handler)
          => NameLess(executed[i].name, executed[j].name)

C12_ResultAtomic == \A o \in observed : o.len = PayloadChunks

\* C13: a flag file that holds no task object (malformed JSON, or JSON
\* that is not an object) gets no result file, does not end the watcher
\* loop, and does not keep the other flags listed by the same scan, or by
\* a later one, from being claimed.
C13_BadFlagIsolated ==
    /\ \A b \in bad : writes[b.name.t] = <<>>
    /\ \A p \in Procs : Alive(p)
    /\ \A p \in Procs : skipped[p] = {}

C16_StartedPausedIdle ==
    [][\A p \in Procs :
          pauseFlag /\ startedPaused[p] /\ Alive(p)
             => \A t \in TaskIds : /\ p \in wins'[t] => p \in wins[t]
                                   /\ p \in runs'[t] => p \in runs[t]]_vars

\* C17: every control flag a supervisor pass executed is gone from
\* Worker_Inbox when the pass ends and has at most one supervisor result
\* file in Worker_Outbox, so that no later pass executes it again.
C17_ExecutedOnce ==
    \A i \in 1..Len(executed) :
       /\ executed[i] \notin inbox
       /\ Cardinality({r \in outbox : /\ r.kind = "sup_result"
                                      /\ r.task_id = executed[i].task_id}) <= 1

\* the files of the last pass's listing that are not control flags
NotControl ==
    {listing[i] : i \in {j \in 1..Len(listing) :
        Shape(listing[j]) # "object"
        \/ listing[j].handler \notin SUPERVISOR_HANDLERS}}

\* C18: a *.flag file whose handler is not a supervisor handler, or that
\* holds no task object, is not executed by a supervisor pass: it is not
\* among the executed flags, the actions list has entries for the control
\* flags only, no supervisor result file carries its task id, and it is
\* still in Worker_Inbox as it was.
C18_OthersLeftAlone ==
    /\ \A f \in NotControl :
          /\ f \in inbox
          /\ \A i \in 1..Len(executed) : executed[i] # f
          /\ \A r \in outbox : r.kind = "sup_result" => r.task_id # f.task_id
    /\ passes > 0 => Len(actions_taken) = Len(listing) - Cardinality(NotControl)

\* a pass listed a flag that is not a control flag beside a control flag,
\* and executed the control flag
C18_Witness ==
    /\ passes > 0 /\ Len(executed) > 0
    /\ NotControl # {}

\* C19: a create_supervisor_flag or create_job_flag call whose input is
\* invalid (invalid label, handler not in the registry of the flag type,
\* empty worker id, empty params) returns a failure result and inserts no
\* job row, writes no audit entry and creates no flag file.
C19_RejectChangesNothing ==
    lastCreate.invalid => ~lastCreate.success /\ ~lastCreate.changed

\* a call with invalid input was rejected after earlier calls had created
\* job rows, audit entries and flag files
C19_Witness ==
    /\ lastCreate.invalid /\ ~lastCreate.success
    /\ jobs # <<>> /\ audit # <<>> /\ inbox # {}

\* C20: processing a result file that carries task_id t sets the state of
\* the job row with task_id t to succeeded if success is true and to failed
\* otherwise, sets its last_error to none on success, else to the top-level
\* error, else to result.error, and changes no other row; with no row of
\* that task_id no row changes.
C20_ResultUpdatesItsRow ==
    \A f \in outbox :
       LET after == process_job_result([jobs |-> jobs, audit |-> audit], f).jobs
       IN /\ Len(after) = Len(jobs)
          /\ \A j \in 1..Len(jobs) :
                IF jobs[j].task_id = f.task_id
                THEN /\ after[j].state = IF f.success THEN "succeeded"
                                         ELSE "failed"
                     /\ after[j].last_error =
                           IF f.success THEN ""
                           ELSE IF f.error # "" THEN f.error
                           ELSE f.result_error
                     /\ after[j].task_id = f.task_id
                ELSE after[j] = jobs[j]

\* process_pending_results has set one row to failed with the error taken
\* from result.error and another row to succeeded without error
C20_Witness ==
    /\ calls > 0
    /\ \E j \in 1..Len(jobs) :
          jobs[j].state = "failed" /\ jobs[j].last_error = "nested"
    /\ \E j \in 1..Len(jobs) :
          jobs[j].state = "succeeded" /\ jobs[j].last_error = ""

\* JOB_COMPLETED entries of audit_log_t for job row j
Completions(j) ==
    {i \in 1..Len(audit) : /\ audit[i].action = "JOB_COMPLETED"
                           /\ audit[i].target_id = j}

\* C21: for every task at most one JOB_COMPLETED audit entry is ever
\* recorded, however many times process_pending_results is called.
C21_CompletedOnce ==
    \A j \in 1..Len(jobs) : Cardinality(Completions(j)) <= 1

\* C22: while the watcher runs its event loop, two consecutive heartbeat
\* file timestamps are never further apart than heartbeat_interval_seconds
\* + scan_interval_seconds, whatever time the tasks of the scans take.
C22_HeartbeatGap == hbGap <= HeartbeatInterval + ScanInterval

\* C23: a call of pause_watcher that found no pause flag returns success
\* exactly when the pause flag exists on return; a failure result leaves
\* no pause flag in place.
C23_PauseSuccessIffFlag ==
    lastCall.handler = "pause_watcher" /\ ~lastCall.flagBefore
        => (lastCall.success <=> lastCall.flagAfter)

\* commits_back values rollback_code is to refuse: below 1, above 10, or
\* not convertible to an integer
Refused(c) == (~c.isint /\ ~c.parses) \/ c.n < 1 \/ c.n > MaxCommitsBack

\* C24: rollback_code answers a commits_back of 0, 11 or a non-integer
\* with a failure result, without stopping the watcher, reverting anything
\* or spawning a process.
C24_RefusedWithoutEffect ==
    lastCall.handler = "rollback_code" /\ Refused(lastCall.commits)
        => /\ ~lastCall.success
           /\ ~lastCall.stopped
           /\ lastCall.reverts = 0
           /\ lastCall.spawns = 0

\* C27: every invocation of a supervisor handler, whether it succeeded,
\* failed or raised, has produced exactly one audit_log_t entry.
C27_OneAuditPerCall == lastCall.handler # "" => lastCall.audits = 1

\* C28: in restart_watcher, update_code, update_code_deps and
\* rollback_code, when stop_watcher_gracefully has reported success, no
\* watcher process that check_watcher_process reports is running when the
\* handler goes on to pull, revert or spawn.
C28_StoppedMeansNoneRunning ==
    lastCall.handler \in CodeHandlers \cup {"restart_watcher"}
       /\ lastCall.stopped => ~lastCall.live

\* C29: in update_code, update_code_deps and rollback_code, on every path
\* on which the watcher was stopped, start_watcher has been called exactly
\* once when the handler returns.
C29_SpawnedOnce ==
    lastCall.handler \in CodeHandlers /\ lastCall.stopped
        => lastCall.spawns = 1

\* the age in seconds of the heartbeat's timestamp (field timestamp, or utc
\* when timestamp is absent) is known and at most MaxAge
FreshStamp(hb) ==
    \E st \in {hb.timestamp, hb.utc} :
       /\ st.kind = "time"
       /\ st.age <= MaxAge
       /\ st = hb.timestamp \/ hb.timestamp.kind = "none"

C26_DryRunOnlyScans ==
    [][\A p \in Procs :
          dryRuns'[p] # dryRuns[p]
             => /\ exitCode'[p] = 0
                /\ UNCHANGED <<fsVars, lock_dir, held, runs, wins, heartbeat>>
      ]_vars

HandlersOf(seq) == [i \in 1..Len(seq) |-> seq[i].handler]

C34_ErrorMeansExitOne ==
    lastPass.ran
       => IF lastPass.error = ""
          THEN TRUE
          ELSE /\ ~lastPass.success
               /\ lastPass.summary = "Supervisor ERROR"
               /\ lastPass.exit = 1

\* C35: a database operation makes at most max_retries attempts, waits
\* retry_delay_seconds * 2^k after its k-th failed attempt (k = 0, 1, ...)
\* and not after the last, returns as soon as an attempt succeeds, and
\* raises DatabaseError only after max_retries consecutive failures.
C35_RetriedWithBackoff ==
    dbOp.op # ""
       => /\ dbOp.attempts <= dbOp.max_retries
          /\ \A k \in 1..Len(dbOp.waits) :
                dbOp.waits[k] = dbOp.retry_delay_seconds * 2 ^ (k - 1)
          /\ Len(dbOp.waits) < dbOp.max_retries
          /\ dbOp.result = "DatabaseError"
                => dbOp.failures = dbOp.max_retries

\* Watcher.record_result, second half when open() or json.dump raises
\* (outbox full, unreachable or read-only): "except Exception" logs
\* "Failed to record result" and record_result returns; process_task
\* returns and the for loop goes on
record_result_write_fails(p) ==
    /\ InMain(p) /\ pc[p] = "rec_write"
    /\ NextTask(p)
    /\ UNCHANGED <<fsVars, worker, running, lock_dir, success, exitCode,
                   frames, dbVars, supVars, sigCount, redelivered, held,
                   writes, wins, lost, raised, runs, seen, missed,
                   sigInTask, relBefore>>
    /\ UNCHANGED extVars

NextLost ==
    \/ \E h \in JOB_HANDLERS : write_task_flag(h)
    \/ run_tick(FirstProc)
    \/ for_task(FirstProc)
    \/ claim_task(FirstProc, "posix")
    \/ \E out \in HandlerOutcomes : execute_handler(FirstProc, out)
    \/ record_result_unlink(FirstProc)
    \/ record_result_write(FirstProc)
    \/ record_result_write_fails(FirstProc)

\* one watcher that keeps running while flags arrive and the outbox may
\* refuse a write
SpecLost == InitShared /\ [][NextLost]_vars

\* process_task of p for the task t it claimed has returned
Finished(p, t) ==
    /\ p \in wins[t]
    /\ ~(owns[p] /\ tasks[p] # <<>> /\ Cur(p).task_id = t)

\* C40: no claimed task is lost: once the watcher that claimed a task has
\* finished it, the task has a result or error file in Worker_Outbox and
\* no file in processing/.
C40_NoClaimedTaskLost ==
    \A t \in TaskIds : \A p \in Procs :
        Finished(p, t) => HasResult(t) /\ processing[t] = NoProc

\* processes of several workers on one host, probed and stopped by the
\* supervisors of these workers
SpecProbe == InitShared /\ [][NextProbe]_vars

\* C39: a supervisor's probe or stop for worker id A matches a process
\* only if it is a watcher started with --worker-id A.
C39_OnlyOwnWatcher ==
    probe.matched # NoMatch =>
        /\ probe.matched.prog \in {"file", "module"}
        /\ probe.matched.worker_id = probe.by

NextOverlap ==
    \/ \E h \in PauseControls : create_supervisor_flag(h, TRUE, TRUE)
    \/ \E i \in Supervisors, order \in Listings(inbox) : pass_list(i, order)
    \/ \E i \in Supervisors, o \in {"ok", "fail"}, ts \in Seconds :
          pass_execute(i, o, ts)

\* two supervisor processes for the same worker whose passes may overlap
SpecOverlap == InitLock /\ [][NextOverlap]_vars

\* C38: with overlapping supervisor passes the handler of each control
\* flag is executed at most once in total and at most one result file is
\* written for it.
C38_FlagHandledOnce ==
    \A t \in TaskIds :
        /\ \A h \in PauseControls :
              Cardinality(Executions(SupName(h, t))) <= 1
        /\ Cardinality(SupResultsOf(t)) <= 1

\* a watcher in its event loop dies where it stands (crash, power loss,
\* the KILL of stop_watcher_gracefully after its timeout): no finally
\* block runs, the lock directory and owner.json stay
watcher_crash(p) ==
    /\ InMain(p) /\ InLoop(p)
    /\ pc' = [pc EXCEPT ![p] = "exited"]
    /\ UNCHANGED <<fsVars, worker, running, lock_dir, tasks, success,
                   exitCode, frames, dbVars, supVars, ghostVars>>
    /\ UNCHANGED extVars

\* Supervisor.run_once when Worker_Inbox holds no control flag:
\* check_watcher_health, the auto-restart step, check_control_flags finds
\* nothing to execute, heartbeats.  The pass counter stops at MaxPasses.
run_once_no_flags(healthy) ==
    /\ \A f \in inbox : ~(Shape(f) = "object" /\ f.handler \in HANDLERS)
    /\ LET found == check_watcher_process(pc)
           paused == pauseFlag
           due == AutoRestartDue(found, paused)
           s1 == IF due THEN start_watcher(ProcState) ELSE ProcState
       IN /\ ~s1.full
          /\ ApplyProcState(s1)
          /\ passes' = IF passes < MaxPasses THEN passes + 1 ELSE passes
          /\ listing' = <<>>
          /\ executed' = <<>>
          /\ autoRestart' = [found |-> found, paused |-> paused,
                             called |-> due, born |-> s1.born,
                             state |-> WatcherState(found, healthy)]
          /\ actions_taken' =
                IF due
                THEN <<[handler |-> "auto_restart_watcher", tag |-> ""]>>
                ELSE <<>>
          /\ lastPass' = PassEnd("", TRUE, actions_taken', 0)
    /\ UNCHANGED <<inbox, processing, outbox, worker, success, nextId, jobs,
                   calls, sigCount, redelivered, writes, wins, lost, raised,
                   runs, seen, missed, atomVars, badVars, returned,
                   lastCreate, hbVars, lastCall, health, dryRuns, dbOp,
                   passList, handled, probe>>

NextHealing ==
    \/ \E h \in JOB_HANDLERS : write_task_flag(h)
    \/ \E healthy \in BOOLEAN : run_once_no_flags(healthy)
    \/ \E p \in Procs :
          \/ acquire_lock(p)
          \/ write_lock_owner(p)
          \/ run_tick(p)
          \/ for_task(p)
          \/ claim_task(p, "posix")
          \/ execute_handler(p, "ok")
          \/ record_result_unlink(p)
          \/ record_result_write(p)
          \/ watcher_crash(p)

\* the supervisor is run again and again by the scheduler, and a spawned
\* watcher process runs main() up to its event loop
FairHealing ==
    /\ WF_vars(\E healthy \in BOOLEAN : run_once_no_flags(healthy))
    /\ \A p \in Procs : WF_vars(acquire_lock(p))
    /\ \A p \in Procs : WF_vars(write_lock_owner(p))

\* one worker without a pause flag; its watcher may die at any moment and
\* the supervisor keeps passing
SpecHealing == InitLock /\ [][NextHealing]_vars /\ FairHealing

\* a watcher process has ended and left its lock directory behind
LeftLockBehind == \E p \in Procs : pc[p] = "exited" /\ held[p]

\* C37: self-healing: after a watcher has died leaving its lock behind,
\* with no pause flag, the following supervisor passes lead to a watcher
\* that runs its event loop holding the lock.
C37_SelfHealing ==
    (LeftLockBehind /\ ~pauseFlag) ~> (\E q \in Procs : Holding(q) /\ InLoop(q))

\* the tasks of a scan stand in ascending flag file name
Ascending(ts) ==
    \A i, j \in 1..Len(ts) : i < j => NameLess(ts[i].name, ts[j].name)

\* p has published a result or error file for task t
PublishedBy(p, t) == \E k \in 1..Len(writes[t]) : writes[t][k].by = p

C36_ReleaseOnlyOwnLock ==
    [][\A w \in WorkerIds :
          /\ ownerFile[w] # NoProc /\ ownerFile'[w] = NoProc
                => Stage(ownerFile[w]) = "rel1"
          /\ lockDir[w] /\ ~lockDir'[w]
                => \A q \in Procs : worker[q] = w /\ held[q] => ~held'[q]
      ]_vars

====
